---- MODULE Spec2Model ----
(***************************************************************************)
(* Placement of clutter objects around the house.                          *)
(*                                                                         *)
(*   "bvh"    place_objects_around_house        src/API.py                  *)
(*   "aabb"   place_objects_around_house        src/API/scene_construction_API.py *)
(*   "single" place_single_object_around_house  src/API/scene_construction_API.py *)
(*                                                                         *)
(* The scene lives on an integer grid.  A mesh is an axis-aligned box; a   *)
(* yaw is a number of quarter turns (0 or 1), so that the world bounding   *)
(* box of a rotated mesh is exact.  One step of the model is one iteration *)
(* of the attempt loop of the running call.                                *)
(***************************************************************************)
EXTENDS Integers, Sequences, FiniteSets, TLC

---------------------------------------------------------------------------
(* Bounds of the model *)

\* attempts per object (max_tries_per_object, max_attempts_per_object, max_attempts)
MaxTries == 2
\* max_distance of the bvh variant, handed to the sampler as max_clearance
bvh_max_distance == 2
\* max_distance of the aabb and single variants
max_distance == 4
\* prop_clearance of the bvh variant
prop_clearance == 0

---------------------------------------------------------------------------
(* Program constants *)

\* min_clearance of the bvh variant (its default)
min_clearance == 1
\* min_distance of the aabb and single variants (its default)
min_distance == 2

---------------------------------------------------------------------------
(* The scene *)

Clutter == {"car", "tree"}
Everything == Clutter \cup {"house", "ground"}
\* the names a caller may pass; no scene holds an object named "ghost"
Names == Clutter \cup {"ghost"}
\* the mesh objects of the scene in the order bpy.data.objects lists them
MeshObjects == <<"car", "ground", "house", "tree">>

Yaws == {0, 1}

Max2(a, b) == IF a >= b THEN a ELSE b
Sq(n) == n * n
Range(s) == {s[i] : i \in 1..Len(s)}

Transform(x, y, z, yaw, s) == [x |-> x, y |-> y, z |-> z, yaw |-> yaw, s |-> s]

\* half extents of the local bounding box of a mesh (obj.bound_box)
bound_box(o) ==
    CASE o = "tree"  -> <<1, 1>>
      [] o = "car"   -> <<2, 1>>
      [] OTHER       -> <<1, 1>>

\* the world bounding box in XY of mesh o under transform t:
\* [obj.matrix_world @ Vector(c) for c in obj.bound_box], min and max per axis
world_bbox_xy(o, t) ==
    LET hx == t.s * (IF t.yaw = 1 THEN bound_box(o)[2] ELSE bound_box(o)[1])
        hy == t.s * (IF t.yaw = 1 THEN bound_box(o)[1] ELSE bound_box(o)[2])
    IN  [x0 |-> t.x - hx, x1 |-> t.x + hx, y0 |-> t.y - hy, y1 |-> t.y + hy]

\* the transforms of the house and the ground; no placement call changes them
HouseWorld == Transform(0, 0, 0, 0, 1)
GroundWorld == Transform(0, 0, 0, 0, 1)
house_bbox == world_bbox_xy("house", HouseWorld)
\* the ground mesh: a plane that ends at y = 2 and has a hole at (-3, -2)
ground_bbox == [x0 |-> -3, x1 |-> 3, y0 |-> -3, y1 |-> 2]
GroundHoles == {<<-3, -2>>}

\* the transforms the clutter objects are imported with
ImportedWorld(o) == Transform(0, 0, 1, 0, 1)

---------------------------------------------------------------------------
(* Geometry of the bvh variant *)

\* the BVH of mesh o under transform t (BVHTree.FromPolygons over the
\* transformed vertices): the surface of its world box
bvh_from_transformed_local(o, t) == world_bbox_xy(o, t)
build_bvh_from_obj(o, t) == world_bbox_xy(o, t)
bvh_house == build_bvh_from_obj("house", HouseWorld)

BoxesMeet(a, b) ==
    ~(a.x1 < b.x0 \/ a.x0 > b.x1 \/ a.y1 < b.y0 \/ a.y0 > b.y1)
StrictlyInside(a, b) ==
    a.x0 > b.x0 /\ a.x1 < b.x1 /\ a.y0 > b.y0 /\ a.y1 < b.y1
\* BVHTree.overlap: some face of one mesh meets some face of the other, so
\* a mesh enclosed by a hollow one does not overlap it
overlap(a, b) ==
    BoxesMeet(a, b) /\ ~StrictlyInside(a, b) /\ ~StrictlyInside(b, a)

\* 0.5 * max(extent in x, extent in y) of the world bounding box
bbox_xy_radius(o, t) ==
    LET b == world_bbox_xy(o, t)
    IN  Max2(b.x1 - b.x0, b.y1 - b.y0) \div 2

\* a cast that hits wherever it starts
raycast_down_anywhere(x, y) == {GroundWorld.z}

\* bvh_ground.ray_cast from (x, y, z_top) downwards: the hit height, if any
raycast_down(x, y) ==
    IF /\ ground_bbox.x0 <= x /\ x <= ground_bbox.x1
       /\ ground_bbox.y0 <= y /\ y <= ground_bbox.y1
       /\ <<x, y>> \notin GroundHoles
    THEN {GroundWorld.z}
    ELSE {}

\* the six main directions the rays are cast in
ray_directions == {"+X", "-X", "+Y", "-Y", "+Z", "-Z"}

\* the directions in which bvh_house.ray_cast from (x, y) at ground level
\* hits the house (a closed hollow box standing on the ground)
HouseRayHits(x, y) ==
    LET h == house_bbox
        inX == h.x0 <= x /\ x <= h.x1
        inY == h.y0 <= y /\ y <= h.y1
    IN  {d \in ray_directions :
            CASE d = "+X" -> inY /\ x <= h.x1
              [] d = "-X" -> inY /\ x >= h.x0
              [] d = "+Y" -> inX /\ y <= h.y1
              [] d = "-Y" -> inX /\ y >= h.y0
              [] OTHER    -> inX /\ inY}

\* a test that asks for more than half of the rays
inside_by_strict_majority(hits) == 2 * Cardinality(hits) > Cardinality(ray_directions)

\* hit_count >= len(ray_directions) * 0.5, hits the rays whose cast hit
is_point_inside_hollow_house(hits) == 2 * Cardinality(hits) >= Cardinality(ray_directions)

Sides == {"left", "right", "top", "bottom"}
\* the positions sample_around_house_bbox can return for a side
sample_around_house_bbox(side, min_c, max_c) ==
    LET h == house_bbox
        x0 == h.x0 - max_c  x1 == h.x1 + max_c
        y0 == h.y0 - max_c  y1 == h.y1 + max_c
        inner_x0 == h.x0 - min_c  inner_x1 == h.x1 + min_c
        inner_y0 == h.y0 - min_c  inner_y1 == h.y1 + min_c
    IN  CASE side = "left"  -> (x0..inner_x0) \X (y0..y1)
          [] side = "right" -> (inner_x1..x1) \X (y0..y1)
          [] side = "top"   -> (x0..x1) \X (inner_y1..y1)
          [] OTHER          -> (x0..x1) \X (y0..inner_y0)

---------------------------------------------------------------------------
(* Geometry of the aabb and single variants *)

\* house_center: the mean of the corners of the house's world bounding box
house_center == <<(house_bbox.x0 + house_bbox.x1) \div 2,
                  (house_bbox.y0 + house_bbox.y1) \div 2>>
\* min_distance + max(house_width, house_depth) / 2
actual_min_distance ==
    min_distance
      + Max2(house_bbox.x1 - house_bbox.x0, house_bbox.y1 - house_bbox.y0) \div 2

DistSq(x, y) == Sq(x - house_center[1]) + Sq(y - house_center[2])

\* house_center + distance * (cos angle, sin angle),
\* distance in [actual_min_distance, max_distance]
PolarSamples ==
    {p \in (house_center[1] - max_distance .. house_center[1] + max_distance)
             \X (house_center[2] - max_distance .. house_center[2] + max_distance) :
        /\ DistSq(p[1], p[2]) >= Sq(actual_min_distance)
        /\ DistSq(p[1], p[2]) <= Sq(max_distance)}

\* target + distance_offset * (cos, sin), distance_offset in [1.0, 3.0]
ClusterSamples(t) ==
    {<<t.x + d[1], t.y + d[2]>> : d \in
        {e \in (-3..3) \X (-3..3) : Sq(e[1]) + Sq(e[2]) >= 1 /\ Sq(e[1]) + Sq(e[2]) <= 9}}

\* x += random.uniform(-1.0, 1.0); y += random.uniform(-1.0, 1.0)
Jittered(S) == {<<p[1] + j[1], p[2] + j[2]>> : p \in S, j \in (-1..1) \X (-1..1)}

---------------------------------------------------------------------------
(* State *)

VARIABLES
    variant,        \* which function is called
    objects,        \* the names bpy.data.objects resolves
    object_names,   \* the argument: <<"None">> (auto-detect) or a list of names
    raises,         \* the objects for whose mesh BVHTree.FromPolygons raises
    shrinkwrap,     \* the objects that carry a SHRINKWRAP constraint
    mw,             \* per name: the world transform of the object of that name
    pc,             \* "start", "loop" or "done"
    order,          \* objects_to_place after the shuffle
    idx,            \* the position in order of the object being placed
    attempt,        \* the attempts its loop has run
    placed,         \* bvh variant: <<[obj, bvh, r, mw]>>
    placed_objects, \* aabb variant: the accepted objects
    failed,         \* bvh variant: the names appended on exhaustion
    result,         \* what the call returned
    outcome,        \* per finished position of order: how it ended, after how many attempts
    tested,         \* per object: the candidate its accepted attempt was tested with
    nAttempts,      \* the attempts of the whole call
    probe,          \* a call of is_point_inside_hollow_house: the rays that hit, what it returned
    drawn,          \* aabb variant: the branch the last candidate was sampled by, and its target
    cam_in,         \* rendering and export: the arguments and the host's settings
    cpc,            \* rendering and export: the position in the calls
    data_objects,   \* bpy.data.objects, in order of creation
    active_object,  \* bpy.context.active_object: a position in data_objects
    rig,            \* the locals of create_hemisphere_cameras
    cam_k,          \* the index of the running loop over cameras
    cameras,        \* the list create_hemisphere_cameras returns: positions in data_objects
    csv_data,       \* the rows export_camera_parameters has collected
    files,          \* the files written: a function from path to content
    connection,     \* code server: per client, the state of its connection
    received,       \* code server: per client, the response it was sent
    server_pc,      \* code server: the position of the server thread
    serving,        \* code server: the client the server thread has accepted
    message_queue,  \* code server: the global queue between the two threads
    response_queue, \* code server: per request, the queue its result is put in
    main_pc,        \* code server: the position of the timer callback on the main thread
    msg,            \* code server: the message the timer callback has taken
    executed,       \* code server: the executions of submitted code, in order
    w_in,           \* workflow: total_steps, enable_review, the step descriptions
    w_pc,           \* workflow: the position in execute_workflow_steps
    step_num,       \* workflow: the step of the for loop
    retry_count,    \* workflow: retry_count of the while loop
    review_result,  \* workflow: review_result of the while loop
    w_log,          \* workflow: per step, what was done for it, in order
    w_return        \* workflow: what execute_workflow_steps returned

vars == <<variant, objects, object_names, raises, shrinkwrap, mw, pc, order, idx,
          attempt, placed, placed_objects, failed, result, outcome, tested,
          nAttempts, drawn, probe, cam_in, cpc, data_objects, active_object, rig, cam_k,
          cameras, csv_data, files, connection, received, server_pc, serving,
          message_queue, response_queue, main_pc, msg, executed, w_in, w_pc,
          step_num, retry_count, review_result, w_log, w_return>>

serverVars == <<connection, received, server_pc, serving, message_queue,
                response_queue, main_pc, msg, executed>>

workflowVars == <<w_in, w_pc, step_num, retry_count, review_result, w_log, w_return>>

camVars == <<cam_in, cpc, data_objects, active_object, rig, cam_k, cameras,
             csv_data, files>>

placeVars == <<variant, objects, object_names, raises, shrinkwrap, mw, pc, order,
               idx, attempt, placed, placed_objects, failed, result, outcome,
               tested, nAttempts, drawn, probe>>

sceneVars == <<variant, objects, object_names, raises>>

None == <<"None">>
NoResult == [ret |-> "none", success |-> 0, total |-> 0, failed |-> <<>>, error |-> FALSE]
\* {"success": 0, "total": 0, "failed": [], "error": str(e)}
ErrorResult == [ret |-> "dict", success |-> 0, total |-> 0, failed |-> <<>>, error |-> TRUE]
BoolResult(b) ==
    [ret |-> IF b THEN "True" ELSE "False", success |-> 0, total |-> 0,
     failed |-> <<>>, error |-> FALSE]

Variants == {"bvh", "aabb", "single"}

\* is_point_inside_hollow_house has not been called on its own
NoProbe == [hits |-> {}, returned |-> "none"]

\* no candidate has been sampled
NotDrawn == [mode |-> "none", target |-> "none"]
\* the branch of the if at the head of the attempt loop, and its target_obj
Drawn(cluster, target) ==
    IF cluster THEN [mode |-> "cluster", target |-> target]
    ELSE [mode |-> "uniform", target |-> "none"]

\* the code server is not running
ServerIdle ==
    /\ connection = <<>>
    /\ received = <<>>
    /\ server_pc = "idle"
    /\ serving = 0
    /\ message_queue = <<>>
    /\ response_queue = <<>>
    /\ main_pc = "idle"
    /\ msg = 0
    /\ executed = <<>>

\* no workflow is running
WorkflowIdle ==
    /\ w_in = <<>>
    /\ w_pc = "idle"
    /\ step_num = 0
    /\ retry_count = 0
    /\ review_result = "None"
    /\ w_log = <<>>
    /\ w_return = "none"

\* no rendering or export call is running
CamIdle ==
    /\ cam_in = <<>>
    /\ cpc = "idle"
    /\ data_objects = <<>>
    /\ active_object = 0
    /\ rig = <<>>
    /\ cam_k = 0
    /\ cameras = <<>>
    /\ csv_data = <<>>
    /\ files = <<>>

Init ==
    /\ variant \in Variants
    /\ objects \in {Everything, Everything \ {"house"}, Everything \ {"ground"}}
    /\ object_names \in
         CASE variant = "bvh"  -> {None, <<"tree", "car">>, <<"tree", "tree">>,
                                   <<"tree", "ghost">>}
           [] variant = "aabb" -> {None}
           [] OTHER            -> {<<"tree">>, <<"car">>, <<"ghost">>}
    /\ raises \in IF variant = "bvh" THEN {{}, {"car"}} ELSE {{}}
    /\ shrinkwrap = {"house"}
    /\ mw = [o \in Names |-> ImportedWorld(o)]
    /\ pc = "start"
    /\ order = <<>>
    /\ idx = 1
    /\ attempt = 0
    /\ placed = <<>>
    /\ placed_objects = <<>>
    /\ failed = <<>>
    /\ result = NoResult
    /\ outcome = <<>>
    /\ tested = [o \in Names |-> {}]
    /\ nAttempts = 0
    /\ drawn = NotDrawn
    /\ probe = NoProbe
    /\ CamIdle
    /\ ServerIdle
    /\ WorkflowIdle

---------------------------------------------------------------------------
(* The start of a call: resolution of the objects and the shuffle *)

\* random.shuffle: any arrangement of the list
Shuffles(seq) ==
    {[i \in 1..Len(seq) |-> seq[f[i]]] : f \in Permutations(1..Len(seq))}

\* all MESH objects of the scene except the house and the ground
AutoDetected ==
    LET Kept(n) == n \in objects /\ n \notin {"house", "ground"}
    IN  SelectSeq(MeshObjects, Kept)

Enter(list) ==
    \E sh \in Shuffles(list) :
        /\ order' = sh
        /\ pc' = "loop"
        /\ result' = NoResult

Fail(r) ==
    /\ pc' = "done"
    /\ result' = r
    /\ UNCHANGED order

\* a faulty get_obj, for sensitivity of the absent-object property: every name resolves
ResolvesAnything(name) == TRUE

\* bpy.data.objects.get(name) finds an object
Resolves(name) == name \in objects

\* src/API.py: get_obj raises for an absent name and the handler returns the
\* error dict; the shrinkwrap constraints of house and ground are removed
\* before the listed objects are resolved
CallBvh ==
    /\ UNCHANGED <<camVars, serverVars, workflowVars, drawn, probe>>
    /\ pc = "start" /\ variant = "bvh"
    /\ IF ~Resolves("house") \/ ~Resolves("ground")
       THEN Fail(ErrorResult) /\ UNCHANGED shrinkwrap
       ELSE /\ shrinkwrap' = shrinkwrap \ {"house", "ground"}
            /\ IF object_names = None
               THEN Enter(AutoDetected)
               ELSE IF \E i \in 1..Len(object_names) : ~Resolves(object_names[i])
                    THEN Fail(ErrorResult)
                    ELSE Enter(object_names)
    /\ UNCHANGED <<sceneVars, mw, idx, attempt, placed, placed_objects, failed,
                   outcome, tested, nAttempts>>

\* scene_construction_API.py: place_objects_around_house up to the shuffle
CallAabb ==
    /\ UNCHANGED <<camVars, serverVars, workflowVars, drawn, probe>>
    /\ pc = "start" /\ variant = "aabb"
    /\ IF ~Resolves("house") \/ ~Resolves("ground")
       THEN Fail(BoolResult(FALSE))
       ELSE IF AutoDetected = <<>>
            THEN Fail(BoolResult(TRUE))
            ELSE Enter(AutoDetected)
    /\ UNCHANGED <<sceneVars, shrinkwrap, mw, idx, attempt, placed, placed_objects,
                   failed, outcome, tested, nAttempts>>

\* scene_construction_API.py: place_single_object_around_house up to its loop
CallSingle ==
    /\ UNCHANGED <<camVars, serverVars, workflowVars, drawn, probe>>
    /\ pc = "start" /\ variant = "single"
    /\ IF ~Resolves(object_names[1]) \/ ~Resolves("house") \/ ~Resolves("ground")
       THEN Fail(BoolResult(FALSE))
       ELSE /\ order' = object_names
            /\ pc' = "loop"
            /\ result' = NoResult
    /\ UNCHANGED <<sceneVars, shrinkwrap, mw, idx, attempt, placed, placed_objects,
                   failed, outcome, tested, nAttempts>>

---------------------------------------------------------------------------
(* The attempt loop of the bvh variant, src/API.py *)

\* a pre-filter that also rejects a candidate at exactly the sum of the radii
too_close_inclusive(approx_r, x, y, pl) ==
    \E i \in 1..Len(pl) :
        Sq(pl[i].mw.x - x) + Sq(pl[i].mw.y - y) <= Sq(approx_r + pl[i].r)

\* step 4: the horizontal-distance pre-filter against the accepted objects
too_close(approx_r, x, y, pl) ==
    \E i \in 1..Len(pl) :
        Sq(pl[i].mw.x - x) + Sq(pl[i].mw.y - y) < Sq(approx_r + pl[i].r)

\* a faulty collision test, for sensitivity of the overlap property: the exact overlap test against the accepted objects is skipped
collided_skipped(candidate_bvh, pl) == FALSE

\* any(_bvh.overlap(candidate_bvh) for (_obj, _bvh, _r, _mw) in placed)
collided(candidate_bvh, pl) ==
    \E i \in 1..Len(pl) : overlap(pl[i].bvh, candidate_bvh)

\* Matrix.Translation((x, y, z)) @ rot @ scale_mat, rot the random yaw,
\* scale the current scale of the object
candidate_world(obj, x, y, z, yaw) == Transform(x, y, z, yaw, mw[obj].s)

\* what one iteration of the attempt loop does with the candidate
BvhVerdict(obj, x, y, yaw) ==
    LET hit == raycast_down(x, y)
        cand == candidate_world(obj, x, y, CHOOSE z \in hit : TRUE, yaw)
        approx_r == bbox_xy_radius(obj, mw[obj]) + prop_clearance
        candidate_bvh == bvh_from_transformed_local(obj, cand)
    IN  IF ~(/\ ground_bbox.x0 <= x /\ x <= ground_bbox.x1
             /\ ground_bbox.y0 <= y /\ y <= ground_bbox.y1)
        THEN "off_ground"
        ELSE IF hit = {} THEN "no_hit"
        ELSE IF too_close(approx_r, x, y, placed) THEN "too_close"
        ELSE IF obj \in raises THEN "raise"
        ELSE IF overlap(bvh_house, candidate_bvh) THEN "hits_house"
        ELSE IF is_point_inside_hollow_house(HouseRayHits(x, y)) THEN "inside_house"
        ELSE IF collided(candidate_bvh, placed) THEN "collided"
        ELSE "ok"

\* for attempt in range(max_tries_per_object)
max_tries_per_object == MaxTries
\* for attempt in range(max_attempts_per_object)
max_attempts_per_object == MaxTries
\* for attempt in range(max_attempts)
max_attempts == MaxTries

\* the loop over objects_to_place moves to the next object
Advance ==
    /\ idx' = idx + 1
    /\ attempt' = 0

\* the record of an attempt in the bookkeeping variables
Counted == nAttempts' = nAttempts + 1

\* the object at position idx ends in state st, after n attempts
Ended(st, n) == Append(outcome, [st |-> st, tries |-> n])

\* obj.matrix_world = candidate_world
Committed(obj, cand) == [mw EXCEPT ![obj] = cand]

\* a list that holds only the object accepted last
Appended_alone(obj, cand) ==
    <<[obj |-> obj, bvh |-> bvh_from_transformed_local(obj, cand),
       r |-> bbox_xy_radius(obj, mw[obj]) + prop_clearance, mw |-> cand]>>

\* placed.append((obj, candidate_bvh, approx_r, candidate_world))
Appended(obj, cand) ==
    Append(placed, [obj |-> obj, bvh |-> bvh_from_transformed_local(obj, cand),
                    r |-> bbox_xy_radius(obj, mw[obj]) + prop_clearance,
                    mw |-> cand])

BvhAttempt ==
    /\ UNCHANGED <<camVars, serverVars, workflowVars, drawn, probe>>
    /\ pc = "loop" /\ variant = "bvh"
    /\ idx <= Len(order) /\ attempt < max_tries_per_object
    /\ \E side \in Sides, yaw \in Yaws :
       \E p \in sample_around_house_bbox(side, min_clearance, bvh_max_distance) :
         LET obj == order[idx]
             v == BvhVerdict(obj, p[1], p[2], yaw)
             cand == candidate_world(obj, p[1], p[2],
                                     CHOOSE z \in raycast_down(p[1], p[2]) : TRUE, yaw)
         IN  /\ Counted
             /\ CASE v = "ok" ->
                       /\ mw' = Committed(obj, cand)
                       /\ placed' = Appended(obj, cand)
                       /\ tested' = [tested EXCEPT ![obj] = {cand}]
                       /\ outcome' = Ended("ACCEPTED", attempt + 1)
                       /\ Advance
                       /\ UNCHANGED <<pc, result>>
                  [] v = "raise" ->
                       /\ pc' = "done"
                       /\ result' = ErrorResult
                       /\ UNCHANGED <<mw, placed, tested, outcome, idx, attempt>>
                  [] OTHER ->
                       /\ attempt' = attempt + 1
                       /\ UNCHANGED <<mw, placed, tested, outcome, idx, pc, result>>
    /\ UNCHANGED <<sceneVars, shrinkwrap, order, placed_objects, failed>>

\* if not success: failed.append(obj.name)
BvhExhaust ==
    /\ UNCHANGED <<camVars, serverVars, workflowVars, drawn, probe>>
    /\ pc = "loop" /\ variant = "bvh"
    /\ idx <= Len(order) /\ attempt = max_tries_per_object
    /\ failed' = Append(failed, order[idx])
    /\ outcome' = Ended("EXHAUSTED", attempt)
    /\ Advance
    /\ UNCHANGED <<sceneVars, shrinkwrap, mw, pc, order, placed, placed_objects,
                   result, tested, nAttempts>>

\* a faulty summary, for sensitivity of the summary property: every object to place is counted as placed
SummaryCountsAll ==
    [ret |-> "dict", success |-> Len(order), total |-> Len(order),
     failed |-> failed, error |-> FALSE]

\* {"success": len(placed), "total": len(objects_to_place), "failed": failed}
Summary ==
    [ret |-> "dict", success |-> Len(placed), total |-> Len(order),
     failed |-> failed, error |-> FALSE]

BvhReturn ==
    /\ UNCHANGED <<camVars, serverVars, workflowVars, drawn, probe>>
    /\ pc = "loop" /\ variant = "bvh"
    /\ idx > Len(order)
    /\ pc' = "done"
    /\ result' = Summary
    /\ UNCHANGED <<sceneVars, shrinkwrap, mw, order, idx, attempt, placed,
                   placed_objects, failed, outcome, tested, nAttempts>>

---------------------------------------------------------------------------
(* The loops of scene_construction_API.py *)

\* obj.location = Vector((x, y, ground.location.z))
Located(obj, x, y) == [mw[obj] EXCEPT !.x = x, !.y = y, !.z = GroundWorld.z]

\* not (obj_max.x < other_min.x or obj_min.x > other_max.x or ...)
aabb_overlap(a, b) == BoxesMeet(a, b)

\* what one iteration of place_objects_around_house does with the candidate
AabbVerdict(obj, temp) ==
    LET box == world_bbox_xy(obj, temp)
    IN  IF \/ DistSq(temp.x, temp.y) < Sq(actual_min_distance)
           \/ DistSq(temp.x, temp.y) > Sq(max_distance)
        THEN "out_of_range"
        ELSE IF \E i \in 1..Len(placed_objects) :
                    /\ placed_objects[i] # obj
                    /\ aabb_overlap(box, world_bbox_xy(placed_objects[i],
                                                       mw[placed_objects[i]]))
        THEN "collided"
        ELSE IF aabb_overlap(box, house_bbox) THEN "hits_house"
        ELSE "ok"

\* stick_object_to_ground(obj.name); obj.rotation_euler.z = random.uniform(0, 2 pi)
Finalized(obj, temp, yaw) == [mw EXCEPT ![obj] = [temp EXCEPT !.yaw = yaw]]

AabbAttempt ==
    /\ UNCHANGED <<camVars, serverVars, workflowVars, probe>>
    /\ pc = "loop" /\ variant = "aabb"
    /\ idx <= Len(order) /\ attempt < max_attempts_per_object
    /\ \E cluster \in BOOLEAN :
         /\ cluster => placed_objects # <<>>
         /\ \E target \in (IF cluster THEN Range(placed_objects) ELSE {order[idx]}) :
            \E p \in Jittered(IF cluster THEN ClusterSamples(mw[target])
                                         ELSE PolarSamples) :
              LET obj == order[idx]
                  temp == Located(obj, p[1], p[2])
                  v == AabbVerdict(obj, temp)
              IN  /\ Counted
                  /\ drawn' = Drawn(cluster, target)
                  /\ IF v = "ok"
                     THEN /\ \E yaw \in Yaws : mw' = Finalized(obj, temp, yaw)
                          /\ shrinkwrap' = shrinkwrap \cup {obj}
                          /\ placed_objects' = Append(placed_objects, obj)
                          /\ tested' = [tested EXCEPT ![obj] = {temp}]
                          /\ outcome' = Ended("ACCEPTED", attempt + 1)
                          /\ Advance
                     ELSE /\ mw' = [mw EXCEPT ![obj] = temp]
                          /\ attempt' = attempt + 1
                          /\ UNCHANGED <<shrinkwrap, placed_objects, tested, outcome, idx>>
    /\ UNCHANGED <<sceneVars, pc, order, placed, failed, result>>

\* if not placed: print(Warning ...)
AabbExhaust ==
    /\ UNCHANGED <<camVars, serverVars, workflowVars, drawn, probe>>
    /\ pc = "loop" /\ variant = "aabb"
    /\ idx <= Len(order) /\ attempt = max_attempts_per_object
    /\ outcome' = Ended("EXHAUSTED", attempt)
    /\ Advance
    /\ UNCHANGED <<sceneVars, shrinkwrap, mw, pc, order, placed, placed_objects,
                   failed, result, tested, nAttempts>>

\* print(Successfully placed ...); return True
AabbReturn ==
    /\ UNCHANGED <<camVars, serverVars, workflowVars, drawn, probe>>
    /\ pc = "loop" /\ variant = "aabb"
    /\ idx > Len(order)
    /\ pc' = "done"
    /\ result' = BoolResult(TRUE)
    /\ UNCHANGED <<sceneVars, shrinkwrap, mw, order, idx, attempt, placed,
                   placed_objects, failed, outcome, tested, nAttempts>>

\* what one iteration of place_single_object_around_house does
SingleVerdict(obj, temp) ==
    LET box == world_bbox_xy(obj, temp)
    IN  IF aabb_overlap(box, house_bbox) THEN "hits_house"
        ELSE IF \E other \in Clutter \cap objects :
                    /\ other # obj
                    /\ aabb_overlap(box, world_bbox_xy(other, mw[other]))
        THEN "collided"
        ELSE "ok"

SingleAttempt ==
    /\ UNCHANGED <<camVars, serverVars, workflowVars, drawn, probe>>
    /\ pc = "loop" /\ variant = "single"
    /\ attempt < max_attempts
    /\ \E p \in PolarSamples :
         LET obj == order[idx]
             temp == Located(obj, p[1], p[2])
             v == SingleVerdict(obj, temp)
         IN  /\ Counted
             /\ IF v = "ok"
                THEN /\ \E yaw \in Yaws : mw' = Finalized(obj, temp, yaw)
                     /\ shrinkwrap' = shrinkwrap \cup {obj}
                     /\ tested' = [tested EXCEPT ![obj] = {temp}]
                     /\ outcome' = Ended("ACCEPTED", attempt + 1)
                     /\ pc' = "done"
                     /\ result' = BoolResult(TRUE)
                     /\ UNCHANGED attempt
                ELSE /\ mw' = [mw EXCEPT ![obj] = temp]
                     /\ attempt' = attempt + 1
                     /\ UNCHANGED <<shrinkwrap, tested, outcome, pc, result>>
    /\ UNCHANGED <<sceneVars, order, idx, placed, placed_objects, failed>>

\* print(Failed to place ...); return False
SingleExhaust ==
    /\ UNCHANGED <<camVars, serverVars, workflowVars, drawn, probe>>
    /\ pc = "loop" /\ variant = "single"
    /\ attempt = max_attempts
    /\ outcome' = Ended("EXHAUSTED", attempt)
    /\ pc' = "done"
    /\ result' = BoolResult(FALSE)
    /\ UNCHANGED <<sceneVars, shrinkwrap, mw, order, idx, attempt, placed,
                   placed_objects, failed, tested, nAttempts>>

---------------------------------------------------------------------------
(* Numbers of the rendering and export code                                *)
(*                                                                         *)
(* The code computes in floats.  A number is kept exactly, as              *)
(* s * sqrt(n / d) with s in {-1, 0, 1}, whenever the code's formula gives *)
(* such a number: integers, ratios, a distance, a multiple of one of them. *)
(* A coordinate that involves the azimuth 2 pi i / golden_ratio is kept as *)
(* a named real: id says which, s is its factor 1 or -1.                   *)

Sgn(k) == IF k > 0 THEN 1 ELSE IF k < 0 THEN -1 ELSE 0

Whole(k) == [s |-> Sgn(k), n |-> k * k, d |-> 1, id |-> <<>>]
Rat(p, q) == [s |-> Sgn(p), n |-> p * p, d |-> q * q, id |-> <<>>]
Named(id) == [s |-> 1, n |-> 1, d |-> 1, id |-> id]
Zero == Whole(0)

NNeg(a) == [a EXCEPT !.s = -a.s]
\* a * p / q, q > 0
NMulRat(a, p, q) ==
    IF p = 0 \/ a.s = 0 THEN Zero
    ELSE [a EXCEPT !.s = a.s * Sgn(p), !.n = a.n * p * p, !.d = a.d * q * q]
NEq(a, b) == a.id = b.id /\ a.s = b.s /\ a.n * b.d = b.n * a.d
\* a < b, for numbers kept exactly
NLess(a, b) ==
    IF a.s # b.s THEN a.s < b.s
    ELSE IF a.s = 1 THEN a.n * b.d < b.n * a.d
    ELSE IF a.s = -1 THEN a.n * b.d > b.n * a.d
    ELSE FALSE
\* the integer an exact number is
IntOf(a) == a.s * (CHOOSE k \in 0..a.n : k * k * a.d = a.n)

\* k * a for a matrix entry k of 0, 1 or -1
NScale(k, a) == IF k = 0 THEN Zero ELSE IF k = 1 THEN a ELSE NNeg(a)
\* a + b where one of the two is 0
NAdd(a, b) == IF a.s = 0 THEN b ELSE a

\* mathutils: M @ v and M @ N for a 3x3 matrix M of entries 0, 1, -1
MatVec(M, v) ==
    [i \in 1..3 |-> NAdd(NAdd(NScale(M[i][1], v[1]), NScale(M[i][2], v[2])),
                         NScale(M[i][3], v[3]))]
MatMat(M, N) ==
    [i \in 1..3 |-> [j \in 1..3 |->
        NAdd(NAdd(NScale(M[i][1], N[1][j]), NScale(M[i][2], N[2][j])),
             NScale(M[i][3], N[3][j]))]]

Identity3 == <<<<Whole(1), Zero, Zero>>, <<Zero, Whole(1), Zero>>, <<Zero, Zero, Whole(1)>>>>
\* a half turn about the X axis
HalfTurnX == <<<<Whole(1), Zero, Zero>>, <<Zero, Whole(-1), Zero>>, <<Zero, Zero, Whole(-1)>>>>

---------------------------------------------------------------------------
(* The scene the rendering and export calls find *)

\* the largest num_cameras a call is made with
MaxCameras == 3

Name(base, digits) == [base |-> base, digits |-> digits]
NoData == [lens |-> 0, sensor_fit |-> "none", sensor_width |-> 0, sensor_height |-> 0]
Box(hx, hy, z0, z1) ==
    [x0 |-> -hx, x1 |-> hx, y0 |-> -hy, y1 |-> hy, z0 |-> z0, z1 |-> z1]

\* a mesh object at (x, y, z), not rotated, with local bounding box box
Mesh(nm, x, y, z, box) ==
    [name |-> Name(nm, <<>>), type |-> "MESH",
     matrix_world |-> [R |-> Identity3, t |-> <<Whole(x), Whole(y), Whole(z)>>],
     bound_box |-> box, data |-> NoData]

\* bpy.ops.object.camera_add(location = loc): the host's new camera object
NewCamera(loc, fit) ==
    [name |-> Name("Camera", <<>>), type |-> "CAMERA",
     matrix_world |-> [R |-> Identity3, t |-> loc],
     bound_box |-> Box(0, 0, 0, 0),
     data |-> [lens |-> 50, sensor_fit |-> fit, sensor_width |-> 36,
               sensor_height |-> 24]]

\* bpy.ops.object.empty_add(type = 'SPHERE', location = loc), named nm
NewEmpty(nm, loc) ==
    [name |-> Name(nm, <<>>), type |-> "EMPTY",
     matrix_world |-> [R |-> Identity3, t |-> loc],
     bound_box |-> Box(0, 0, 0, 0), data |-> NoData]

CamSceneNames == {"cube", "yard", "bare", "studio"}
\* the objects of a scene, in order of creation
CamScene(nm) ==
    LET ground == Mesh("ground", 0, 0, 0, Box(3, 3, 0, 0))
        house == Mesh("house", HouseWorld.x, HouseWorld.y, HouseWorld.z,
                      Box(bound_box("house")[1], bound_box("house")[2], 0, 2))
        tree == Mesh("tree", 3, 0, 0,
                     Box(bound_box("tree")[1], bound_box("tree")[2], 0, 4))
        car == Mesh("car", 0, -3, 0,
                    Box(bound_box("car")[1], bound_box("car")[2], 0, 1))
    IN  CASE nm = "cube"   -> <<Mesh("house", 0, 0, 0, Box(1, 1, -1, 1))>>
          [] nm = "yard"   -> <<ground, house, tree, car>>
          [] nm = "bare"   -> <<ground>>
          [] OTHER         -> <<NewCamera(<<Whole(4), Whole(-4), Whole(3)>>, "AUTO"),
                                ground, house>>

\* camera_height_ratio as a fraction <<p, q>>
Ratios == {<<6, 5>>, <<1, 1>>, <<0, 1>>, <<-1, 1>>}
\* render.resolution_x, render.resolution_y
Resolutions == {<<4, 2>>, <<2, 4>>}
\* the values of bpy.types.Camera.sensor_fit
SensorFits == {"AUTO", "HORIZONTAL", "VERTICAL"}
\* the OBJ export operators a host version can have
ObjOperators == {{"wm.obj_export"}, {"export_scene.obj"}, {}}

---------------------------------------------------------------------------
(* create_hemisphere_cameras, src/API.py *)

MaxOf(S) == CHOOSE m \in S : \A e \in S : e <= m
MinOf(S) == CHOOSE m \in S : \A e \in S : m <= e

\* the positions of the MESH objects other than the ground
HemisphereObjects(objs) ==
    {k \in 1..Len(objs) : objs[k].type = "MESH" /\ objs[k].name # Name("ground", <<>>)}

\* [obj.matrix_world @ Vector(corner) for corner in obj.bound_box]
WorldCorners(obj) ==
    LET t == obj.matrix_world.t
        b == obj.bound_box
    IN  {<<IntOf(t[1]) + x, IntOf(t[2]) + y, IntOf(t[3]) + z>> :
            x \in {b.x0, b.x1}, y \in {b.y0, b.y1}, z \in {b.z0, b.z1}}

AllCorners(objs) == UNION {WorldCorners(objs[k]) : k \in HemisphereObjects(objs)}

\* a center that ignores the far side of the bounding box
center2_of_min(C) ==
    <<2 * MinOf({c[1] : c \in C}), 2 * MinOf({c[2] : c \in C})>>

\* twice (center_x, center_y): min + max of the corners, per axis
center2(C) ==
    <<MinOf({c[1] : c \in C}) + MaxOf({c[1] : c \in C}),
      MinOf({c[2] : c \in C}) + MaxOf({c[2] : c \in C})>>

\* a radius that ignores the height of the corners
radius_sq4_flat(C, c2) ==
    MaxOf({0} \cup {Sq(2 * c[1] - c2[1]) + Sq(2 * c[2] - c2[2]) : c \in C})

\* four times the square of radius: the largest of 0, horizontal_dist and
\* effective_radius over the corners
radius_sq4(C, c2) ==
    MaxOf({0}
          \cup {Sq(2 * c[1] - c2[1]) + Sq(2 * c[2] - c2[2]) : c \in C}
          \cup {Sq(2 * c[1] - c2[1]) + Sq(2 * c[2] - c2[2]) + 4 * Sq(c[3]) : c \in C})

\* sqrt(n / d)
Root(n, d) == [s |-> IF n = 0 THEN 0 ELSE 1, n |-> n, d |-> d, id |-> <<>>]

NoRig == [center_x |-> Zero, center_y |-> Zero, radius |-> Zero, max_height |-> 0,
          hemisphere_radius |-> Zero]

\* the locals the function computes before its loop
RigLocals(objs, ratio) ==
    LET C == AllCorners(objs)
        c2 == center2(C)
    IN  [center_x |-> Rat(c2[1], 2), center_y |-> Rat(c2[2], 2),
         radius |-> Root(radius_sq4(C, c2), 4),
         max_height |-> MaxOf({c[3] : c \in C}),
         hemisphere_radius |-> NMulRat(Root(radius_sq4(C, c2), 4), ratio[1], ratio[2])]

\* the cosine of a polar angle that runs over the whole sphere
cos_phi_sphere(i, num_cameras) == <<num_cameras - 2 * i, num_cameras>>

\* cos(phi) for phi = acos(1 - i / num_cameras), as a fraction
cos_phi(i, num_cameras) == <<num_cameras - i, num_cameras>>

\* (x, y, z) of camera i
CameraLocation(r, i, num_cameras) ==
    LET c == cos_phi(i, num_cameras)
        \* hemisphere_radius * sin(phi) is 0 for phi = 0 and for radius 0
        above == c[1] = c[2] \/ r.hemisphere_radius.s = 0
    IN  <<IF above THEN r.center_x ELSE Named(<<"x", i>>),
          IF above THEN r.center_y ELSE Named(<<"y", i>>),
          NMulRat(r.hemisphere_radius, c[1], c[2])>>

\* "Camera_Hemisphere_{i:03d}": the digits of i, padded with zeros to three
HemisphereName(i) ==
    Name("Camera_Hemisphere_",
         IF i < 1000 THEN <<(i \div 100) % 10, (i \div 10) % 10, i % 10>>
         ELSE <<i \div 1000, (i \div 100) % 10, (i \div 10) % 10, i % 10>>)

\* (look_at_point - camera.location).to_track_quat('-Z', 'Y') as a matrix:
\* no turn for a camera that looks straight down (or at its own place), a
\* half turn for one that looks straight up, a matrix of named reals otherwise
TrackRotation(loc, r, i) ==
    IF NEq(loc[1], r.center_x) /\ NEq(loc[2], r.center_y) /\ loc[3].id = <<>>
    THEN IF NLess(loc[3], Rat(r.max_height, 2)) THEN HalfTurnX ELSE Identity3
    ELSE [a \in 1..3 |-> [b \in 1..3 |-> Named(<<"r", i, a, b>>)]]

camera_add(objs, loc, fit) == Append(objs, NewCamera(loc, fit))

\* an operator call that leaves the active object as it was
active_after_add_kept(objs, before) == before

\* bpy.context.active_object after an add operator: the new object
active_after_add(objs, before) == Len(objs)

\* the body of the loop for camera i
WithCamera(objs, act, r, i, num_cameras, fit) ==
    LET loc == CameraLocation(r, i, num_cameras)
        objs1 == camera_add(objs, loc, fit)
        camera == active_after_add(objs1, act)
    IN  [objs |-> [objs1 EXCEPT
                     ![camera].name = HemisphereName(i),
                     ![camera].matrix_world.R =
                         TrackRotation(objs1[camera].matrix_world.t, r, i),
                     ![camera].data.lens = 35],
         camera |-> camera]

RigCall ==
    /\ cpc = "rig_call"
    /\ IF HemisphereObjects(data_objects) = {}
       THEN /\ cpc' = "rig_returned"
            /\ UNCHANGED rig
       ELSE /\ cpc' = "rig_loop"
            /\ rig' = RigLocals(data_objects, cam_in.camera_height_ratio)
    /\ cam_k' = 0
    /\ cameras' = <<>>
    /\ UNCHANGED <<placeVars, serverVars, workflowVars, cam_in, data_objects, active_object, csv_data, files>>

RigStep ==
    /\ cpc = "rig_loop"
    /\ cam_k < cam_in.num_cameras
    /\ LET w == WithCamera(data_objects, active_object, rig, cam_k,
                           cam_in.num_cameras, cam_in.sensor_fit)
       IN  /\ data_objects' = w.objs
           /\ active_object' = w.camera
           /\ cameras' = Append(cameras, w.camera)
    /\ cam_k' = cam_k + 1
    /\ UNCHANGED <<placeVars, serverVars, workflowVars, cam_in, cpc, rig, csv_data, files>>

RigReturn ==
    /\ cpc = "rig_loop"
    /\ cam_k = cam_in.num_cameras
    /\ data_objects' = Append(data_objects,
                              NewEmpty("Hemisphere_Center",
                                       <<rig.center_x, rig.center_y, Zero>>))
    /\ active_object' = active_after_add(data_objects', active_object)
    /\ cpc' = "rig_returned"
    /\ UNCHANGED <<placeVars, serverVars, workflowVars, cam_in, rig, cam_k, cameras, csv_data, files>>

---------------------------------------------------------------------------
(* export_camera_parameters and export_obj, src/API.py *)

\* a precedes b in the order of names
DigitsBefore(a, b) ==
    \E k \in 1..Len(b) :
        /\ \A j \in 1..(k - 1) : j <= Len(a) /\ a[j] = b[j]
        /\ k > Len(a) \/ a[k] < b[k]

\* every camera object, whatever its name
AllCameras(objs) == {k \in 1..Len(objs) : objs[k].type = "CAMERA"}

\* obj.type == 'CAMERA' and 'Camera_Hemisphere' in obj.name
IsHemisphereCamera(objs) ==
    {k \in 1..Len(objs) :
        objs[k].type = "CAMERA" /\ objs[k].name.base = "Camera_Hemisphere_"}

\* [obj for obj in bpy.data.objects if ...]: bpy.data.objects lists the
\* objects by name
HemisphereCameras(objs) ==
    LET S == IsHemisphereCamera(objs)
        Rank(k) == Cardinality({j \in S :
                       \/ DigitsBefore(objs[j].name.digits, objs[k].name.digits)
                       \/ objs[j].name.digits = objs[k].name.digits /\ j < k})
    IN  [r \in 1..Cardinality(S) |-> CHOOSE k \in S : Rank(k) = r - 1]

\* the focal length in pixels: along the width for sensor_fit 'HORIZONTAL',
\* along the height otherwise
focal_px(cam_data, width, height) ==
    IF cam_data.sensor_fit = "HORIZONTAL"
    THEN Rat(width * cam_data.lens, cam_data.sensor_width)
    ELSE Rat(height * cam_data.lens, cam_data.sensor_height)

\* a flip that leaves the Y axis as it is
flip_z_only == <<<<1, 0, 0>>, <<0, 1, 0>>, <<0, 0, -1>>>>

\* Matrix([[1, 0, 0], [0, -1, 0], [0, 0, -1]])
flip == <<<<1, 0, 0>>, <<0, -1, 0>>, <<0, 0, -1>>>>

fieldnames ==
    <<"camera_name", "fx", "fy", "cx", "cy", "k1", "k2", "k3", "p1", "p2",
      "r11", "r12", "r13", "r21", "r22", "r23", "r31", "r32", "r33",
      "tx", "ty", "tz", "width", "height">>

\* the dict appended to csv_data for a camera
CsvRow(camera, width, height) ==
    LET f == focal_px(camera.data, width, height)
        R_opencv == MatMat(flip, camera.matrix_world.R)
        t_opencv == MatVec(flip, camera.matrix_world.t)
    IN  [camera_name |-> camera.name,
         fx |-> f, fy |-> f, cx |-> Rat(width, 2), cy |-> Rat(height, 2),
         k1 |-> Zero, k2 |-> Zero, k3 |-> Zero, p1 |-> Zero, p2 |-> Zero,
         r11 |-> R_opencv[1][1], r12 |-> R_opencv[1][2], r13 |-> R_opencv[1][3],
         r21 |-> R_opencv[2][1], r22 |-> R_opencv[2][2], r23 |-> R_opencv[2][3],
         r31 |-> R_opencv[3][1], r32 |-> R_opencv[3][2], r33 |-> R_opencv[3][3],
         tx |-> t_opencv[1], ty |-> t_opencv[2], tz |-> t_opencv[3],
         width |-> Whole(width), height |-> Whole(height)]

\* csv.DictWriter: the header, then the values of each row in the order of
\* fieldnames
CsvLines(rows) ==
    <<fieldnames>> \o
    [k \in 1..Len(rows) |-> [c \in 1..Len(fieldnames) |-> rows[k][fieldnames[c]]]]

ExportCall ==
    /\ cpc = "rig_returned"
    /\ cpc' = IF HemisphereCameras(data_objects) = <<>>
              THEN "export_returned" ELSE "export_loop"
    /\ cam_k' = 1
    /\ csv_data' = <<>>
    /\ UNCHANGED <<placeVars, serverVars, workflowVars, cam_in, data_objects, active_object, rig, cameras,
                   files>>

ExportRow ==
    /\ cpc = "export_loop"
    /\ cam_k <= Len(HemisphereCameras(data_objects))
    /\ csv_data' = Append(csv_data,
                          CsvRow(data_objects[HemisphereCameras(data_objects)[cam_k]],
                                 cam_in.resolution[1], cam_in.resolution[2]))
    /\ cam_k' = cam_k + 1
    /\ UNCHANGED <<placeVars, serverVars, workflowVars, cam_in, cpc, data_objects, active_object, rig,
                   cameras, files>>

ExportWrite ==
    /\ cpc = "export_loop"
    /\ cam_k > Len(HemisphereCameras(data_objects))
    /\ files' = [files EXCEPT !.csv = CsvLines(csv_data)]
    /\ cpc' = "export_returned"
    /\ UNCHANGED <<placeVars, serverVars, workflowVars, cam_in, data_objects, active_object, rig, cam_k,
                   cameras, csv_data>>

\* the vertices of a mesh in world space: the corners of its box
MeshVertices(obj) ==
    LET C == WorldCorners(obj)
    IN  [k \in 1..Cardinality(C) |->
            CHOOSE c \in C : Cardinality({e \in C :
                \/ e[1] < c[1]
                \/ e[1] = c[1] /\ e[2] < c[2]
                \/ e[1] = c[1] /\ e[2] = c[2] /\ e[3] < c[3]}) = k - 1]

\* the number of faces of a mesh: the sides of its box, one for a plane
MeshFaces(obj) == IF Cardinality(WorldCorners(obj)) = 4 THEN 1 ELSE 6

RECURSIVE ObjLines(_, _)
\* what the host's OBJ exporter writes for the first n objects: for every
\* mesh its vertices as "v" lines and its faces as "f" lines
ObjLines(objs, n) ==
    IF n = 0 THEN <<>>
    ELSE IF objs[n].type # "MESH" THEN ObjLines(objs, n - 1)
    ELSE ObjLines(objs, n - 1)
         \o [k \in 1..Len(MeshVertices(objs[n])) |->
                [tag |-> "v", obj |-> n, p |-> MeshVertices(objs[n])[k]]]
         \o [k \in 1..MeshFaces(objs[n]) |-> [tag |-> "f", obj |-> n, p |-> <<k>>]]

\* bpy.ops.wm.obj_export, else bpy.ops.export_scene.obj, else RuntimeError
ExportObj ==
    /\ cpc = "export_returned"
    /\ IF cam_in.obj_operators = {}
       THEN /\ cpc' = "obj_raised"
            /\ UNCHANGED files
       ELSE /\ cpc' = "obj_returned"
            /\ files' = [files EXCEPT !.obj = ObjLines(data_objects, Len(data_objects))]
    /\ UNCHANGED <<placeVars, serverVars, workflowVars, cam_in, data_objects, active_object, rig, cam_k,
                   cameras, csv_data>>

---------------------------------------------------------------------------
(* The specification *)

Next ==
    \/ CallBvh
    \/ BvhAttempt
    \/ BvhExhaust
    \/ BvhReturn
    \/ CallAabb
    \/ AabbAttempt
    \/ AabbExhaust
    \/ AabbReturn
    \/ CallSingle
    \/ SingleAttempt
    \/ SingleExhaust

Spec == Init /\ [][Next]_vars

\* the placement calls are not running
PlaceIdle ==
    /\ variant = "bvh"
    /\ objects = Everything
    /\ object_names = None
    /\ raises = {}
    /\ shrinkwrap = {"house"}
    /\ mw = [o \in Names |-> ImportedWorld(o)]
    /\ pc = "idle"
    /\ order = <<>>
    /\ idx = 1
    /\ attempt = 0
    /\ placed = <<>>
    /\ placed_objects = <<>>
    /\ failed = <<>>
    /\ result = NoResult
    /\ outcome = <<>>
    /\ tested = [o \in Names |-> {}]
    /\ nAttempts = 0
    /\ drawn = NotDrawn

NoFiles == [csv |-> <<>>, obj |-> <<>>]

\* a scene, then create_hemisphere_cameras, export_camera_parameters and
\* export_obj, one after the other
CamInit ==
    /\ PlaceIdle
    /\ probe = NoProbe
    /\ ServerIdle
    /\ WorkflowIdle
    /\ \E sc \in CamSceneNames, n \in 0..MaxCameras, ratio \in Ratios,
          res \in Resolutions, fit \in SensorFits, ops \in ObjOperators :
         /\ cam_in = [scene |-> sc, num_cameras |-> n, camera_height_ratio |-> ratio,
                      resolution |-> res, sensor_fit |-> fit, obj_operators |-> ops]
         /\ data_objects = CamScene(sc)
         /\ active_object = Len(CamScene(sc))
    /\ cpc = "rig_call"
    /\ rig = NoRig
    /\ cam_k = 0
    /\ cameras = <<>>
    /\ csv_data = <<>>
    /\ files = NoFiles

CamNext ==
    \/ RigCall
    \/ RigStep
    \/ RigReturn
    \/ ExportCall
    \/ ExportRow
    \/ ExportWrite
    \/ ExportObj

CamSpec == CamInit /\ [][CamNext]_vars

---------------------------------------------------------------------------
(* The interior test of the bvh variant, on its own and within a batch *)

\* is_point_inside_hollow_house(bvh_house, x, y, z) for a point of a
\* structure of any shape: the casts that hit are probe.hits
HollowCall ==
    /\ pc = "idle" /\ probe.returned = "none"
    /\ probe' = [probe EXCEPT !.returned =
                     IF is_point_inside_hollow_house(probe.hits) THEN "True" ELSE "False"]
    /\ UNCHANGED <<camVars, serverVars, workflowVars, variant, objects, object_names, raises, shrinkwrap, mw,
                   pc, order, idx, attempt, placed, placed_objects, failed, result,
                   outcome, tested, nAttempts, drawn>>

\* either one call of the test, for any outcome of the six casts, or a batch
\* of the bvh variant
HollowInit ==
    \/ /\ PlaceIdle /\ CamIdle /\ ServerIdle /\ WorkflowIdle
       /\ \E H \in SUBSET ray_directions : probe = [hits |-> H, returned |-> "none"]
    \/ Init /\ variant = "bvh"

HollowNext ==
    \/ HollowCall
    \/ CallBvh
    \/ BvhAttempt
    \/ BvhExhaust
    \/ BvhReturn

HollowSpec == HollowInit /\ [][HollowNext]_vars

---------------------------------------------------------------------------
(* The code server, src/blender_server.py                                  *)
(*                                                                         *)
(* Two threads: the server thread accepts one client at a time, puts its   *)
(* code in message_queue and waits up to 30 s for the result; the timer    *)
(* callback process_messages runs on the main thread.  A step of the model *)
(* is the code of a thread between two points where it can block; the 30 s *)
(* are over whenever the server thread waits and no result has come.       *)

\* the clients that connect while the server runs
MaxClients == 3
Clients == 1..MaxClients

NoResponse == [status |-> "none", of |-> 0]
\* {'status': 'error', 'error': 'Execution timeout'}
TimeoutResult == [status |-> "Execution timeout", of |-> 0]
\* execute_code_safe(code): the result of exec on the code of request c
execute_code_safe(c) == [status |-> "executed", of |-> c]

\* a get that takes the newest message
get_newest(q) == q[Len(q)]
\* message_queue.get_nowait(): the oldest message
get_nowait(q) == Head(q)
\* the queue without message m
Without(q, m) == SelectSeq(q, LAMBDA e : e # m)

ServerInit ==
    /\ PlaceIdle /\ probe = NoProbe /\ CamIdle /\ WorkflowIdle
    /\ connection = [c \in Clients |-> "new"]
    /\ received = [c \in Clients |-> NoResponse]
    /\ server_pc = "accept"
    /\ serving = 0
    /\ message_queue = <<>>
    /\ response_queue = [c \in Clients |-> <<>>]
    /\ main_pc = "waiting"
    /\ msg = 0
    /\ executed = <<>>

\* a client connects and sends its code
client_connect ==
    \E c \in Clients :
        /\ connection[c] = "new"
        /\ connection' = [connection EXCEPT ![c] = "sent"]
        /\ UNCHANGED <<placeVars, camVars, workflowVars, received, server_pc, serving,
                       message_queue, response_queue, main_pc, msg, executed>>

\* server_thread_func: accept, recv, message_queue.put, up to the wait
server_thread_accept ==
    /\ server_pc = "accept"
    /\ \E c \in Clients :
        /\ connection[c] = "sent"
        /\ connection' = [connection EXCEPT ![c] = "accepted"]
        /\ serving' = c
        /\ message_queue' = Append(message_queue, [code |-> c, response_queue |-> c])
    /\ server_pc' = "wait"
    /\ UNCHANGED <<placeVars, camVars, workflowVars, received, response_queue,
                   main_pc, msg, executed>>

\* response_queue.get returned a result: send it, close
server_thread_respond ==
    /\ server_pc = "wait"
    /\ response_queue[serving] # <<>>
    /\ received' = [received EXCEPT ![serving] = Head(response_queue[serving])]
    /\ response_queue' = [response_queue EXCEPT ![serving] = Tail(@)]
    /\ connection' = [connection EXCEPT ![serving] = "closed"]
    /\ server_pc' = "accept"
    /\ serving' = 0
    /\ UNCHANGED <<placeVars, camVars, workflowVars, message_queue, main_pc, msg,
                   executed>>

\* response_queue.get raised queue.Empty after 30 s: send the error, close
server_thread_timeout ==
    /\ server_pc = "wait"
    /\ response_queue[serving] = <<>>
    /\ received' = [received EXCEPT ![serving] = TimeoutResult]
    /\ connection' = [connection EXCEPT ![serving] = "closed"]
    /\ server_pc' = "accept"
    /\ serving' = 0
    /\ UNCHANGED <<placeVars, camVars, workflowVars, message_queue, response_queue,
                   main_pc, msg, executed>>

\* process_messages: the queue is not empty, take one message and start
\* execute_code_safe on its code
process_messages_take ==
    /\ main_pc = "waiting"
    /\ message_queue # <<>>
    /\ msg' = get_nowait(message_queue)
    /\ message_queue' = Without(message_queue, get_nowait(message_queue))
    /\ executed' = Append(executed, [code |-> get_nowait(message_queue).code,
                                     thread |-> "main"])
    /\ main_pc' = "executing"
    /\ UNCHANGED <<placeVars, camVars, workflowVars, connection, received, server_pc,
                   serving, response_queue>>

\* process_messages: execute_code_safe returned, put the result, return 0.05
process_messages_put ==
    /\ main_pc = "executing"
    /\ response_queue' = [response_queue EXCEPT
                             ![msg.response_queue] = Append(@, execute_code_safe(msg.code))]
    /\ msg' = 0
    /\ main_pc' = "waiting"
    /\ UNCHANGED <<placeVars, camVars, workflowVars, connection, received, server_pc,
                   serving, message_queue, executed>>

ServerNext ==
    \/ client_connect
    \/ server_thread_accept
    \/ server_thread_respond
    \/ server_thread_timeout
    \/ process_messages_take
    \/ process_messages_put

ServerSpec == ServerInit /\ [][ServerNext]_vars


---------------------------------------------------------------------------
(* Vocabulary of the properties *)

\* the state of the object at position i of order
State(i) ==
    IF i <= Len(outcome) THEN outcome[i].st
    ELSE IF i = idx /\ pc # "start" THEN "SAMPLING"
    ELSE "PENDING"

Final == {"ACCEPTED", "EXHAUSTED"}

\* the call returned its summary (bvh) or True (aabb)
ReturnedNormally ==
    /\ pc = "done"
    /\ ~result.error
    /\ result.ret = (IF variant = "bvh" THEN "dict" ELSE "True")

\* the BVH of the i-th accepted object, built from its committed transform
AcceptedBvh(i) == build_bvh_from_obj(placed[i].obj, mw[placed[i].obj])

\* the objects some position of order accepted
AcceptedObjects == {order[i] : i \in {j \in 1..Len(outcome) : outcome[j].st = "ACCEPTED"}}

---------------------------------------------------------------------------
(* Properties *)

\* C1: in the bvh variant, in every state of a batch and after its return, no
\* two different accepted objects have overlapping BVHs at their committed
\* transforms, and no accepted object's BVH overlaps the BVH of the house.
C1_AcceptedNeverOverlap ==
    variant = "bvh" =>
        /\ \A i, j \in 1..Len(placed) :
               placed[i].obj # placed[j].obj => ~overlap(AcceptedBvh(i), AcceptedBvh(j))
        /\ \A i \in 1..Len(placed) : ~overlap(bvh_house, AcceptedBvh(i))

\* two different objects were accepted and the call returned its summary
C1_Witness ==
    /\ variant = "bvh" /\ ReturnedNormally
    /\ Len(placed) = 2 /\ placed[1].obj # placed[2].obj

\* C2: for every accepted object the committed transform is the candidate
\* its accepted attempt was collision-tested with, in every variant.
C2_CommittedIsTested ==
    \A o \in AcceptedObjects : tested[o] = {mw[o]}

\* C3: an attempt that rejects its candidate leaves every transform as it
\* was (so an exhausted object keeps the transform it had), in every variant.
C3_RejectionKeepsTransform ==
    [][attempt' = attempt + 1 => mw' = mw]_vars

\* C4: when an object exhausts its attempts the batch goes on: at the end of
\* the call every object of the shuffled sequence has been attempted and the
\* call has returned its summary.
C4_ExhaustionNeverAborts ==
    (/\ variant \in {"bvh", "aabb"}
     /\ pc = "done"
     /\ \E i \in 1..Len(order) : State(i) = "EXHAUSTED")
    => /\ ReturnedNormally
       /\ \A i \in 1..Len(order) : State(i) # "PENDING"

\* C5: every object is given at most max_tries_per_object attempts, ends
\* EXHAUSTED only after that many rejected candidates and ACCEPTED by its last
\* attempt, and a batch that has started ends with every object ACCEPTED or
\* EXHAUSTED after at most n * max_tries_per_object attempts.
C5_BatchEndsWithEveryObjectFinal ==
    variant = "bvh" =>
        /\ attempt <= MaxTries
        /\ nAttempts <= Len(order) * MaxTries
        /\ \A i \in 1..Len(outcome) :
               /\ outcome[i].st \in Final
               /\ outcome[i].tries \in 1..MaxTries
               /\ outcome[i].st = "EXHAUSTED" => outcome[i].tries = MaxTries
        /\ (pc = "done" /\ order # <<>>) => \A i \in 1..Len(order) : State(i) \in Final

\* the positions of order that ended in state st
Positions(st) == {i \in 1..Len(outcome) : outcome[i].st = st}

RECURSIVE ExhaustedOf(_)
\* the names at the EXHAUSTED positions among the first n, in processing order
ExhaustedOf(n) ==
    IF n = 0 THEN <<>>
    ELSE IF outcome[n].st = "EXHAUSTED" THEN Append(ExhaustedOf(n - 1), order[n])
    ELSE ExhaustedOf(n - 1)

Distinct(seq) == \A i, j \in 1..Len(seq) : i # j => seq[i] # seq[j]

\* C6 as claimed: on normal return of the bvh variant, success + len(failed)
\* = total = the number of objects to place, failed holds exactly the
\* identifiers that reached EXHAUSTED, each once, and no accepted object's
\* identifier is in failed, whatever list of identifiers was passed.
C6_SummaryForAnyList ==
    (variant = "bvh" /\ ReturnedNormally) =>
        /\ result.success + Len(result.failed) = result.total
        /\ result.total = Len(order)
        /\ Range(result.failed) = {order[i] : i \in Positions("EXHAUSTED")}
        /\ Distinct(result.failed)
        /\ Range(result.failed) \cap AcceptedObjects = {}

\* C6 as amended: on normal return of the bvh variant, success + len(failed)
\* = total = the number of list entries, success is the number of entries that
\* were accepted, failed holds one identifier per entry that reached
\* EXHAUSTED, in processing order; when the identifiers passed are pairwise
\* different, no identifier is twice in failed and no accepted object's
\* identifier is in failed.
C6_SummaryPerEntry ==
    (variant = "bvh" /\ ReturnedNormally) =>
        /\ result.success + Len(result.failed) = result.total
        /\ result.total = Len(order)
        /\ result.success = Cardinality(Positions("ACCEPTED"))
        /\ result.failed = ExhaustedOf(Len(order))
        /\ Distinct(order) =>
               /\ Distinct(result.failed)
               /\ Range(result.failed) \cap AcceptedObjects = {}

\* the same identifier was passed twice, accepted first and exhausted second
C6_Witness ==
    /\ variant = "bvh" /\ ReturnedNormally
    /\ order = <<"tree", "tree">>
    /\ State(1) = "ACCEPTED" /\ State(2) = "EXHAUSTED"
    /\ result.failed = <<"tree">>

\* max(house_width, house_depth) / 2
structure_radius ==
    Max2(house_bbox.x1 - house_bbox.x0, house_bbox.y1 - house_bbox.y0) \div 2

\* (x, y) is within the jitter of a point whose distance to the house center
\* lies in [lo, hi]
WithinBand(x, y, lo, hi) ==
    \E j \in (-1..1) \X (-1..1) :
        /\ DistSq(x - j[1], y - j[2]) >= Sq(lo)
        /\ DistSq(x - j[1], y - j[2]) <= Sq(hi)

\* C7: in both variants of place_objects_around_house every accepted object
\* lies, up to the jitter, at a distance in
\* [min_clearance + structure_radius, max_distance] of the house center.
C7_AcceptedWithinBand ==
    \A o \in AcceptedObjects :
        /\ variant = "bvh" =>
               WithinBand(mw[o].x, mw[o].y, min_clearance + structure_radius,
                          bvh_max_distance)
        /\ variant = "aabb" =>
               WithinBand(mw[o].x, mw[o].y, min_distance + structure_radius,
                          max_distance)

\* the house, the ground or a listed object is not in the scene
SomethingAbsent ==
    \/ "house" \notin objects
    \/ "ground" \notin objects
    \/ /\ object_names # None
       /\ \E i \in 1..Len(object_names) : object_names[i] \notin objects

C9_BvhFailureNeverAborts ==
    (variant = "bvh" /\ pc = "done" /\ order # <<>>) => result = Summary

---------------------------------------------------------------------------
(* Properties of the camera rig and of the exports, under CamSpec *)

\* create_hemisphere_cameras has returned
RigReturned == cpc \notin {"idle", "rig_call", "rig_loop"}

\* export_camera_parameters has returned
ExportReturned == cpc \in {"export_returned", "obj_returned", "obj_raised"}

\* the location of the camera at position c of data_objects
LocationOf(c) == data_objects[c].matrix_world.t

\* C11: create_hemisphere_cameras with N >= 1 cameras over at least one mesh
\* object and a hemisphere radius >= 0 returns exactly N cameras, the k-th of
\* them the camera of index k - 1, each a camera object of its own, and every
\* one of them at z >= 0.
C11_NPosesNoneBelowGrade ==
    (/\ cpc \notin {"idle", "rig_call"}
     /\ cam_in.num_cameras >= 1
     /\ HemisphereObjects(data_objects) # {}
     /\ rig.hemisphere_radius.s >= 0)
    => /\ RigReturned => Len(cameras) = cam_in.num_cameras
       /\ cpc = "rig_loop" => Len(cameras) = cam_k
       /\ \A k \in 1..Len(cameras) :
              /\ data_objects[cameras[k]].type = "CAMERA"
              /\ data_objects[cameras[k]].name = HemisphereName(k - 1)
              /\ LocationOf(cameras[k])[3].s >= 0
       /\ \A k, l \in 1..Len(cameras) : k # l => cameras[k] # cameras[l]

\* three cameras were created on a hemisphere of positive radius
C11_Witness ==
    /\ RigReturned
    /\ cam_in.num_cameras = 3 /\ Len(cameras) = 3
    /\ rig.hemisphere_radius.s = 1

\* camera_count = 1 and height_ratio = 1.2 over the 2x2x2 cube at the origin
CubeScenario ==
    /\ cam_in.scene = "cube"
    /\ cam_in.num_cameras = 1
    /\ cam_in.camera_height_ratio = <<6, 5>>
    /\ RigReturned

\* the single camera is straight above the center, at the height of the
\* hemisphere radius
CameraAtPole ==
    /\ Len(cameras) = 1
    /\ NEq(LocationOf(cameras[1])[1], rig.center_x)
    /\ NEq(LocationOf(cameras[1])[2], rig.center_y)
    /\ NEq(LocationOf(cameras[1])[3], rig.hemisphere_radius)

\* C12 as claimed: in the cube scenario the hemisphere radius is
\* sqrt(2) * 1.2 (its square 2 * 1.44) and the camera is at polar angle 0, at
\* (center_x, center_y, radius).
C12_CubeRadiusRootTwo ==
    CubeScenario =>
        /\ NEq(rig.hemisphere_radius, Root(2 * 144, 100))
        /\ CameraAtPole

\* C12 as amended: in the cube scenario (corners (+-1, +-1, +-1)) the
\* hemisphere radius is sqrt(3) * 1.2 (its square 3 * 1.44): the distance of
\* a corner from the center counts its height; the camera is at polar angle
\* 0, at (center_x, center_y, radius), and the center is (0, 0).
C12_CubeRadiusRootThree ==
    CubeScenario =>
        /\ NEq(rig.hemisphere_radius, Root(3 * 144, 100))
        /\ NEq(rig.center_x, Zero) /\ NEq(rig.center_y, Zero)
        /\ CameraAtPole

\* the cube scenario has run
C12_Witness == CubeScenario /\ Len(cameras) = 1

\* the corners of the bounding boxes of the included objects
IncludedCorners == AllCorners(data_objects)

\* four times the squares of the horizontal and of the 3D distance of corner
\* c from the point (x2 / 2, y2 / 2, 0)
Horizontal4(c, x2, y2) == Sq(2 * c[1] - x2) + Sq(2 * c[2] - y2)
Spatial4(c, x2, y2) == Horizontal4(c, x2, y2) + 4 * Sq(c[3])

\* C13: the rig center is the x, y midpoint of the union bounding box of the
\* included objects, at z = 0; the hemisphere radius is height_ratio times
\* the largest, over all corners, of the horizontal and the 3D distance to
\* the center; for height_ratio >= 1 every corner is within the hemisphere
\* radius of the center.
C13_CenterAndRadius ==
    (cpc \notin {"idle", "rig_call"} /\ HemisphereObjects(data_objects) # {}) =>
        LET C == IncludedCorners
            x2 == MinOf({c[1] : c \in C}) + MaxOf({c[1] : c \in C})
            y2 == MinOf({c[2] : c \in C}) + MaxOf({c[2] : c \in C})
            far4 == MaxOf({Horizontal4(c, x2, y2) : c \in C}
                          \cup {Spatial4(c, x2, y2) : c \in C})
            ratio == cam_in.camera_height_ratio
            R == rig.hemisphere_radius
        IN  /\ NEq(rig.center_x, Rat(x2, 2))
            /\ NEq(rig.center_y, Rat(y2, 2))
            /\ RigReturned =>
                   \E k \in 1..Len(data_objects) :
                       /\ data_objects[k].type = "EMPTY"
                       /\ data_objects[k].matrix_world.t =
                              <<rig.center_x, rig.center_y, Zero>>
            /\ R.s = Sgn(ratio[1]) * Sgn(far4)
            /\ R.n * 4 * Sq(ratio[2]) = far4 * Sq(ratio[1]) * R.d
            /\ ratio[1] >= ratio[2] =>
                   \A c \in C : Spatial4(c, x2, y2) * R.d <= 4 * R.n

\* a rig around the yard, whose bounding box is not centered at the origin,
\* with a margin
C13_Witness ==
    /\ RigReturned
    /\ cam_in.scene = "yard"
    /\ cam_in.camera_height_ratio = <<6, 5>>
    /\ Len(cameras) >= 1

\* the header row of the camera-parameter table
ExpectedHeader ==
    <<"camera_name", "fx", "fy", "cx", "cy", "k1", "k2", "k3", "p1", "p2",
      "r11", "r12", "r13", "r21", "r22", "r23", "r31", "r32", "r33",
      "tx", "ty", "tz", "width", "height">>

\* the file is the header and one row per hemisphere camera of the scene, the
\* k-th row that of the camera of index k - 1
OneRowPerCamera ==
    /\ Len(files.csv) = 1 + Cardinality(IsHemisphereCamera(data_objects))
    /\ files.csv[1] = ExpectedHeader
    /\ \A k \in 2..Len(files.csv) :
           /\ files.csv[k][1] = HemisphereName(k - 2)
           /\ \E c \in IsHemisphereCamera(data_objects) :
                  data_objects[c].name = files.csv[k][1]

\* C14 as claimed: export_camera_parameters writes the header and then one
\* row per hemisphere camera of the scene, in index order, none skipped or
\* repeated.
C14_HeaderAndOneRowPerCamera ==
    ExportReturned => OneRowPerCamera

\* C14 as amended: when the scene holds at least one hemisphere camera,
\* export_camera_parameters writes the header and then one row per
\* hemisphere camera, in index order, none skipped or repeated; when it
\* holds none, no file is written.
C14_RowsWhenCamerasExist ==
    ExportReturned =>
        IF IsHemisphereCamera(data_objects) = {}
        THEN files.csv = <<>>
        ELSE OneRowPerCamera

\* three cameras were exported from a scene that also holds a camera that is
\* no hemisphere camera
C14_Witness ==
    /\ ExportReturned
    /\ cam_in.scene = "studio"
    /\ Len(files.csv) = 4

\* the axis the sensor fit designates: for 'AUTO' the longer side of the image
ReferenceAxis(fit, width, height) ==
    CASE fit = "HORIZONTAL" -> "H"
      [] fit = "VERTICAL"   -> "V"
      [] OTHER              -> IF width >= height THEN "H" ELSE "V"

\* C15: in every exported row fx = fy, and the focal length in pixels is
\* resolution_x * lens / sensor_width when the reference axis of the
\* camera's sensor fit is horizontal and resolution_y * lens / sensor_height
\* when it is vertical, for every value of sensor_fit.
C15_FocalAlongReferenceAxis ==
    \A k \in 1..Len(csv_data) :
        LET cam == data_objects[HemisphereCameras(data_objects)[k]].data
            w == cam_in.resolution[1]
            h == cam_in.resolution[2]
        IN  /\ NEq(csv_data[k].fx, csv_data[k].fy)
            /\ NEq(csv_data[k].fx,
                   IF ReferenceAxis(cam.sensor_fit, w, h) = "H"
                   THEN Rat(w * cam.lens, cam.sensor_width)
                   ELSE Rat(h * cam.lens, cam.sensor_height))

\* the camera a line of the written table belongs to
CameraOfLine(k) == data_objects[HemisphereCameras(data_objects)[k - 1]]

\* C16: in every written row the rotation is F * R and the translation
\* F * t, F = diag(1, -1, -1), R and t the camera's world rotation and
\* translation: row 1 of R and tx as they are, rows 2 and 3 and ty, tz
\* negated, the nine entries row by row; and the flip applied to the
\* exported rotation and translation gives back R and t.
C16_FlipNegatesRowsTwoAndThree ==
    \A k \in 2..Len(files.csv) :
        LET line == files.csv[k]
            R == CameraOfLine(k).matrix_world.R
            t == CameraOfLine(k).matrix_world.t
            Rx == <<<<line[11], line[12], line[13]>>,
                    <<line[14], line[15], line[16]>>,
                    <<line[17], line[18], line[19]>>>>
            tx == <<line[20], line[21], line[22]>>
        IN  /\ \A j \in 1..3 :
                   /\ NEq(Rx[1][j], R[1][j])
                   /\ NEq(Rx[2][j], NNeg(R[2][j]))
                   /\ NEq(Rx[3][j], NNeg(R[3][j]))
            /\ NEq(tx[1], t[1]) /\ NEq(tx[2], NNeg(t[2])) /\ NEq(tx[3], NNeg(t[3]))
            /\ \A i, j \in 1..3 : NEq(MatMat(flip, Rx)[i][j], R[i][j])
            /\ \A i \in 1..3 : NEq(MatVec(flip, tx)[i], t[i])

\* a row was written for a camera that looks at the scene from the side
C16_Witness ==
    /\ cpc = "export_returned"
    /\ \E k \in 2..Len(files.csv) : CameraOfLine(k).matrix_world.R[2][2].id # <<>>

\* the entries of a matrix of 0, 1 and -1 as integers, transposed, negated
AsIntegers(M) == [i \in 1..3 |-> [j \in 1..3 |-> IntOf(M[i][j])]]
Transposed(M) == [i \in 1..3 |-> [j \in 1..3 |-> M[j][i]]]
Negated(M) == [i \in 1..3 |-> [j \in 1..3 |-> -M[i][j]]]
VecEq(u, v) == \A i \in 1..3 : NEq(u[i], v[i])

\* C17: for every camera of the rig, the ray of the image-center pixel
\* rebuilt from the exported R and t starts at the camera's world position
\* and points along its viewing direction, towards the look-at point. R and
\* t are read as camera-to-world (origin t, direction R (0, 0, 1)) or as
\* world-to-camera (origin -R^T t, direction R^T (0, 0, 1)), whichever fits;
\* stated for the cameras straight above the center, whose numbers are exact.
C17_CenterRayRoundTrip ==
    \A k \in 2..Len(files.csv) :
        LET cam == CameraOfLine(k)
            line == files.csv[k]
            position == cam.matrix_world.t
            exact == /\ \A i \in 1..3 : position[i].id = <<>>
                     /\ \A i, j \in 1..3 : cam.matrix_world.R[i][j].id = <<>>
            Rx == AsIntegers(<<<<line[11], line[12], line[13]>>,
                               <<line[14], line[15], line[16]>>,
                               <<line[17], line[18], line[19]>>>>)
            tx == <<line[20], line[21], line[22]>>
            ahead == <<Zero, Zero, Whole(1)>>
            \* the camera looks down when it is above the look-at point
            down == NLess(Rat(rig.max_height, 2), position[3])
            look == <<Zero, Zero, Whole(IF down THEN -1 ELSE 1)>>
        IN  (exact /\ ~NEq(position[3], Rat(rig.max_height, 2))) =>
                \/ /\ VecEq(tx, position)
                   /\ VecEq(MatVec(Rx, ahead), look)
                \/ /\ VecEq(MatVec(Negated(Transposed(Rx)), tx), position)
                   /\ VecEq(MatVec(Transposed(Rx), ahead), look)

\* C18: the point-cloud export writes samples_per_face points for every mesh
\* face: the header declares a vertex count, which is the number of point
\* lines and is the number of faces times samples_per_face, for some
\* samples_per_face >= 1.
C18_SamplesPerFace ==
    cpc = "obj_returned" =>
        LET L == files.obj
            points == {k \in 1..Len(L) : L[k].tag = "v"}
            faces == {k \in 1..Len(L) : L[k].tag = "f"}
        IN  /\ \E k \in 1..Len(L) :
                   L[k].tag = "element vertex" /\ L[k].p = <<Cardinality(points)>>
            /\ \E samples_per_face \in 1..Cardinality(points) :
                   Cardinality(points) = Cardinality(faces) * samples_per_face

\* the world transforms of the mesh objects
MeshTransforms ==
    [k \in {j \in 1..Len(data_objects) : data_objects[j].type = "MESH"} |->
        data_objects[k].matrix_world]

\* C19: no step of create_hemisphere_cameras or of export_camera_parameters
\* changes the world transform of a mesh object, and no step of
\* export_camera_parameters changes an object of the scene or the active
\* object.
C19_RigAndExportReadOnly ==
    [][/\ MeshTransforms' = MeshTransforms
       /\ cpc \in {"rig_returned", "export_loop"} =>
              /\ data_objects' = data_objects
              /\ active_object' = active_object]_vars

\* two cameras were created around the yard and exported
C19_Witness ==
    /\ cpc = "export_returned"
    /\ cam_in.scene = "yard"
    /\ Len(csv_data) = 2
    /\ Len(files.csv) = 3

---------------------------------------------------------------------------
(* The order of a placement batch, under Spec *)

\* the step accepts the object at position idx
Accepts ==
    /\ Len(outcome') = Len(outcome) + 1
    /\ outcome'[Len(outcome')].st = "ACCEPTED"

\* the objects are placed one at a time, in the shuffled order: the
\* positions before idx are final, the others are not, and a step changes
\* the transform of the object at position idx only
OneAtATime ==
    pc = "loop" =>
        /\ Len(outcome) = idx - 1
        /\ \A o \in Names : (idx > Len(order) \/ o # order[idx]) => mw'[o] = mw[o]

\* an accepted candidate does not collide with any object accepted earlier
\* in the batch, taken at the transform committed for it
TestedAgainstEarlier ==
    Accepts =>
        /\ variant = "bvh" =>
               \A i \in 1..Len(placed) :
                   ~overlap(build_bvh_from_obj(placed[i].obj, mw[placed[i].obj]),
                            placed'[Len(placed')].bvh)
        /\ variant = "aabb" =>
               \A i \in 1..Len(placed_objects) : \A t \in tested'[order[idx]] :
                   ~aabb_overlap(world_bbox_xy(order[idx], t),
                                 world_bbox_xy(placed_objects[i], mw[placed_objects[i]]))

\* the accepted list only grows: no entry is changed or removed
AcceptedListGrows ==
    /\ Len(placed') >= Len(placed)
    /\ \A i \in 1..Len(placed) : placed'[i] = placed[i]
    /\ Len(placed_objects') >= Len(placed_objects)
    /\ \A i \in 1..Len(placed_objects) : placed_objects'[i] = placed_objects[i]

\* the transform of an accepted object stays as committed
AcceptedTransformKept ==
    /\ \A i \in 1..Len(placed) : mw'[placed[i].obj] = mw[placed[i].obj]
    /\ \A i \in 1..Len(placed_objects) : mw'[placed_objects[i]] = mw[placed_objects[i]]

\* C20 as claimed: the objects are processed one at a time in the shuffled
\* order, each accepted candidate was tested against every object accepted
\* earlier at its committed transform, and once an object is accepted its
\* transform and its entry in the accepted list never change.
C20_SequentialAndAcceptedKept ==
    [][/\ OneAtATime
       /\ TestedAgainstEarlier
       /\ AcceptedListGrows
       /\ AcceptedTransformKept]_vars

\* C20 as amended: the objects are processed one at a time in the shuffled
\* order, each accepted candidate was tested against every object accepted
\* earlier at its committed transform, and the accepted list only grows;
\* when the identifiers of the batch are pairwise different, the transform of
\* an accepted object never changes for the rest of the batch. (An
\* identifier listed twice is placed twice: the second acceptance overwrites
\* the transform committed by the first.)
C20_SequentialAndListGrows ==
    [][/\ OneAtATime
       /\ TestedAgainstEarlier
       /\ AcceptedListGrows
       /\ Distinct(order) => AcceptedTransformKept]_vars

\* after one object was accepted, a candidate of the next one was rejected
C20_Witness ==
    /\ variant = "bvh" /\ pc = "loop"
    /\ Len(placed) = 1 /\ idx = 2 /\ attempt = 1
    /\ Distinct(order)

---------------------------------------------------------------------------
(* Clustering in the aabb variant, under Spec *)

\* the step is an attempt of the aabb variant
AabbSamples == variant = "aabb" /\ nAttempts' = nAttempts + 1

\* the candidate of the step lies, up to the jitter, at a distance in [1, 3]
\* of the position of object t
OffsetFrom(t) ==
    \E j \in (-1..1) \X (-1..1) :
        LET d == Sq(mw'[order[idx]].x - j[1] - mw[t].x)
                   + Sq(mw'[order[idx]].y - j[2] - mw[t].y)
        IN  1 <= d /\ d <= 9

\* a candidate is sampled near an object only when one was accepted before,
\* and then near an accepted one; the first object's candidates are all
\* sampled around the house
ClusterOnlyNearAccepted ==
    AabbSamples =>
        /\ drawn'.mode \in {"cluster", "uniform"}
        /\ drawn'.mode = "cluster" =>
               /\ placed_objects # <<>>
               /\ drawn'.target \in Range(placed_objects)
               /\ OffsetFrom(drawn'.target)
        /\ (idx = 1 \/ placed_objects = <<>>) => drawn'.mode = "uniform"

\* the accepted objects of the aabb variant lie within the distance bounds
AcceptedWithinBounds ==
    variant = "aabb" =>
        \A i \in 1..Len(placed_objects) :
            /\ DistSq(mw[placed_objects[i]].x, mw[placed_objects[i]].y)
                   >= Sq(actual_min_distance)
            /\ DistSq(mw[placed_objects[i]].x, mw[placed_objects[i]].y)
                   <= Sq(max_distance)

\* no two accepted objects of the aabb variant have overlapping bounding boxes
AcceptedApart ==
    variant = "aabb" =>
        \A i, j \in 1..Len(placed_objects) :
            i # j => ~aabb_overlap(world_bbox_xy(placed_objects[i], mw[placed_objects[i]]),
                                   world_bbox_xy(placed_objects[j], mw[placed_objects[j]]))

\* C21: a cluster candidate is sampled only when an object was accepted
\* before in the batch, at an offset of 1 to 3 from the position of an
\* accepted object; every candidate of the first object is sampled around
\* the house; and the accepted objects always keep the distance bounds and
\* their pairwise separation.
C21_ClusterKeepsSeparation ==
    [][/\ ClusterOnlyNearAccepted
       /\ AcceptedWithinBounds'
       /\ AcceptedApart']_vars

---------------------------------------------------------------------------
(* The tests of the bvh variant on a candidate, under Spec *)

\* the bvh variant is about to sample a candidate for the object at idx
BvhSampling ==
    variant = "bvh" /\ pc = "loop" /\ idx <= Len(order) /\ attempt < max_tries_per_object

\* the candidates the next attempt can sample: a position and a yaw
Candidates ==
    (UNION {sample_around_house_bbox(side, min_clearance, bvh_max_distance) :
                side \in Sides}) \X Yaws

\* what the next attempt does with candidate c
VerdictOf(c) == BvhVerdict(order[idx], c[1][1], c[1][2], c[2])

\* half the larger XY extent of the bounding box of accepted entry i, plus
\* the collision margin
ApproxRadius(i) == bbox_xy_radius(placed[i].obj, placed[i].mw) + prop_clearance

\* the same for the object at idx
ApproxRadiusOfCurrent == bbox_xy_radius(order[idx], mw[order[idx]]) + prop_clearance

\* the square of the horizontal distance of (x, y) to accepted entry i
CentreDistSq(i, x, y) == Sq(placed[i].mw.x - x) + Sq(placed[i].mw.y - y)

\* position p is nearer to some accepted entry than the sum of the radii
NearerThanRadii(p) ==
    \E i \in 1..Len(placed) :
        CentreDistSq(i, p[1], p[2]) < Sq(ApproxRadiusOfCurrent + ApproxRadius(i))

\* the verdicts of the tests that follow the pre-filter
AfterPreFilter == {"raise", "hits_house", "inside_house", "collided", "ok"}

---------------------------------------------------------------------------
(* The interior test, under HollowSpec *)

\* C23: the interior test returns True exactly when at least 3 of the 6
\* rays cast from the point hit the structure, and no accepted object of the
\* bvh variant is committed at a position the test classifies as inside.
C23_InsideFromThreeHits ==
    /\ probe.returned # "none" =>
           (probe.returned = "True" <=> Cardinality(probe.hits) >= 3)
    /\ \A i \in 1..Len(placed) :
           Cardinality(HouseRayHits(mw[placed[i].obj].x, mw[placed[i].obj].y)) < 3

\* the test returned True on exactly three hits
C23_Witness ==
    probe.returned = "True" /\ Cardinality(probe.hits) = 3

---------------------------------------------------------------------------
(* The ground under an accepted object, under Spec *)

\* (x, y) is inside the world-space bounding rectangle of the ground
OnFootprint(x, y) ==
    /\ ground_bbox.x0 <= x /\ x <= ground_bbox.x1
    /\ ground_bbox.y0 <= y /\ y <= ground_bbox.y1

\* the ground mesh has a surface point above or below (x, y)
GroundUnder(x, y) == OnFootprint(x, y) /\ <<x, y>> \notin GroundHoles

\* every accepted entry stands on the ground, at the height of the hit
AcceptedOnGround ==
    variant = "bvh" =>
        \A i \in 1..Len(placed) :
            LET committed == mw[placed[i].obj]
            IN  /\ OnFootprint(committed.x, committed.y)
                /\ GroundUnder(committed.x, committed.y)
                /\ committed.z = GroundWorld.z

\* a candidate off the footprint or without a hit is rejected by that test
OffGroundRejected ==
    BvhSampling =>
        \A c \in Candidates :
            /\ ~OnFootprint(c[1][1], c[1][2]) => VerdictOf(c) = "off_ground"
            /\ (OnFootprint(c[1][1], c[1][2]) /\ ~GroundUnder(c[1][1], c[1][2]))
                   => VerdictOf(c) = "no_hit"

\* an attempt of the bvh variant that neither accepts nor raises uses up one
\* of the attempts of the object and changes no transform
RejectionConsumes ==
    (variant = "bvh" /\ nAttempts' = nAttempts + 1 /\ ~Accepts /\ pc' = "loop") =>
        /\ attempt' = attempt + 1 /\ idx' = idx
        /\ mw' = mw /\ placed' = placed

\* C24: every accepted object of the bvh variant is committed at an (x, y)
\* inside the bounding rectangle of the ground and above a point of the
\* ground, at the height of the hit; a candidate off the rectangle or
\* without a hit is rejected, and the rejection uses up one attempt.
C24_AcceptedOnGroundRejectionCounts ==
    [][/\ AcceptedOnGround'
       /\ OffGroundRejected
       /\ RejectionConsumes]_vars

\* an object was accepted by its second attempt
C24_Witness ==
    /\ variant = "bvh" /\ Len(placed) >= 1
    /\ outcome[1].st = "ACCEPTED" /\ outcome[1].tries = 2

---------------------------------------------------------------------------
(* The count the bvh variant reports, under Spec *)

\* the objects whose transform the call has committed
CommittedObjects == {o \in Names : mw[o] # ImportedWorld(o)}

\* C25: on every return path of the bvh variant, the one through the
\* exception handler included, the reported success count is the number of
\* objects whose transform the call committed.
C25_SuccessCountsCommitted ==
    (variant = "bvh" /\ pc = "done") =>
        result.success = Cardinality(CommittedObjects)

---------------------------------------------------------------------------
(* The accepted objects and the rest of the scene, under Spec *)

\* the clutter objects of the scene other than o
OtherClutter(o) == (Clutter \cap objects) \ {o}

\* objects o and q overlap where they are, by the test of the variant
OverlapInScene(o, q) ==
    IF variant = "bvh"
    THEN overlap(build_bvh_from_obj(o, mw[o]), build_bvh_from_obj(q, mw[q]))
    ELSE aabb_overlap(world_bbox_xy(o, mw[o]), world_bbox_xy(q, mw[q]))

\* C26: after a batch of place_objects_around_house has returned, no
\* accepted object overlaps any other clutter object of the scene, be it
\* accepted, exhausted or not in the list of objects to place.
C26_AcceptedClearOfAllClutter ==
    (variant \in {"bvh", "aabb"} /\ ReturnedNormally) =>
        \A o \in AcceptedObjects : \A q \in OtherClutter(o) : ~OverlapInScene(o, q)

---------------------------------------------------------------------------
(* Properties of the code server, under ServerSpec *)

\* an execution of submitted code starts in the step
ExecutionStarts == Len(executed') = Len(executed) + 1

\* executed only grows, by one execution at a time
ExecutedGrows ==
    /\ Len(executed') \in {Len(executed), Len(executed) + 1}
    /\ \A i \in 1..Len(executed) : executed'[i] = executed[i]

\* the server thread puts a message at the tail of the queue, the timer
\* callback takes the one at its head; nothing else changes the queue
QueueIsFifo ==
    \/ message_queue' = message_queue
    \/ /\ Len(message_queue') = Len(message_queue) + 1
       /\ \A i \in 1..Len(message_queue) : message_queue'[i] = message_queue[i]
    \/ /\ message_queue # <<>>
       /\ message_queue' = Tail(message_queue)
       /\ ExecutionStarts
       /\ executed'[Len(executed')].code = Head(message_queue).code

\* the results a client has been sent or can still be sent are the timeout
\* error or the result of its own code
OwnResultOnly ==
    \A c \in Clients :
        /\ received[c] \in {NoResponse, TimeoutResult, execute_code_safe(c)}
        /\ \A i \in 1..Len(response_queue[c]) :
               response_queue[c][i] = execute_code_safe(c)

\* C27: submitted code is executed only by process_messages on the main
\* thread, one message per timer call, in the order in which the server
\* thread put the messages in the queue; no execution starts while another
\* runs; and a client is sent the result of its own code only.
C27_MainThreadFifoOwnResult ==
    [][/\ ExecutedGrows
       /\ QueueIsFifo
       /\ ExecutionStarts =>
              /\ main_pc = "waiting" /\ main_pc' = "executing"
              /\ executed'[Len(executed')].thread = "main"
              /\ message_queue # <<>>
       /\ OwnResultOnly']_vars

\* one client has been sent the result of its code, and two later requests
\* are pending at once
C27_Witness ==
    /\ Len(executed) = 1
    /\ received[executed[1].code] = execute_code_safe(executed[1].code)
    /\ Len(message_queue) = 2

\* some client has been answered with the timeout error
SomeTimeout == \E c \in Clients : received[c] = TimeoutResult

\* C28: the code of a request whose client was answered with the timeout
\* error is never executed afterwards, and while no timeout has happened the
\* message queue never holds more than one pending request.
C28_TimedOutNeverExecuted ==
    [][/\ ExecutionStarts =>
              received[executed'[Len(executed')].code] # TimeoutResult
       /\ ~SomeTimeout => Len(message_queue) <= 1]_vars

---------------------------------------------------------------------------
(* The workflow of the orchestrator, src/Orchestrator.py: the steps of the
   generated code are fetched, executed and reviewed one after the other.
   Every request to an agent is one action; its answer is an input. *)

\* the most steps the generated code has
MaxSteps == 2

\* the steps that are reviewed even when review is disabled
review_only_steps == {"scale"}

\* the steps that are never reviewed
skip_review_steps ==
    {"clear_scene", "add_ground", "capture_scene_views", "place_objects_around_house"}

\* a step description, as the set of the step names it contains
Descriptions == SUBSET {"scale", "add_ground", "place_objects_around_house"}

\* what a request to an agent can come to: an answer that reports success, an
\* answer that reports failure, or an exception of the HTTP client
Answers == {"ok", "failed", "raised"}

\* what the request to the reviewing agent can come to
ReviewResponses == {"ok", "not_ok", "status", "not_dict", "no_ok_field", "exception"}

max_retries == 5

should_review_step(enable_review, step_description) ==
    IF ~enable_review
    THEN review_only_steps \cap step_description # {}
    ELSE skip_review_steps \cap step_description = {}

\* the review_result the loop keeps: everything but a well-formed answer with
\* a true "ok" becomes a failed review
ReviewResult(response) == IF response = "ok" THEN "ok" ELSE "failed"

never_fix(r) == FALSE

\* review_result and not review_result.get("ok", False)
NeedsFix(r) == r = "failed"

exec_any(exec_result) == TRUE

\* exec_result.get("ok", False)
ExecOk(exec_result) == exec_result = "ok"

\* the record of a request: which one, for which step, how it was answered, and
\* the review_result and the step description at that moment
Event(ev, ok, rr, d) ==
    [ev |-> ev, step |-> step_num, ok |-> ok, review_result |-> rr, description |-> d]

Logged(ev, ok) ==
    w_log' = Append(w_log, Event(ev, ok, review_result, w_in.description))

Return(v) ==
    /\ w_pc' = "done"
    /\ w_return' = v

\* the for loop goes to the next step, or the workflow returns True
NextStep ==
    IF step_num + 1 <= w_in.total_steps
    THEN w_pc' = "step_info" /\ step_num' = step_num + 1 /\ w_return' = w_return
    ELSE Return("True") /\ step_num' = step_num

WorkflowInit ==
    /\ PlaceIdle
    /\ probe = NoProbe
    /\ CamIdle
    /\ ServerIdle
    /\ \E e \in BOOLEAN :
         w_in = [enable_review |-> e, total_steps |-> 0, description |-> {}]
    /\ w_pc = "set_combination"
    /\ step_num = 0
    /\ retry_count = 0
    /\ review_result = "None"
    /\ w_log = <<>>
    /\ w_return = "none"

set_combination_in_coding_agent ==
    /\ UNCHANGED <<placeVars, camVars, serverVars>>
    /\ w_pc = "set_combination"
    /\ \E a \in Answers :
         /\ Logged("set_combination", a)
         /\ IF a = "ok"
            THEN w_pc' = "generate" /\ w_return' = w_return
            ELSE Return("raised")
    /\ UNCHANGED <<w_in, step_num, retry_count, review_result>>

\* the request for the complete code, and the entry of the for loop
generate_code ==
    /\ UNCHANGED <<placeVars, camVars, serverVars>>
    /\ w_pc = "generate"
    /\ \E a \in Answers, n \in 0..MaxSteps :
         /\ Logged("generate", a)
         /\ CASE a = "raised" ->
                   Return("raised") /\ UNCHANGED <<w_in, step_num>>
              [] a = "failed" ->
                   Return("False") /\ UNCHANGED <<w_in, step_num>>
              [] a = "ok" ->
                   /\ w_in' = [w_in EXCEPT !.total_steps = n]
                   /\ IF 1 <= n
                      THEN w_pc' = "step_info" /\ step_num' = 1 /\ w_return' = w_return
                      ELSE Return("True") /\ step_num' = step_num
    /\ UNCHANGED <<retry_count, review_result>>

\* the head of the for loop's body
get_step_info ==
    /\ UNCHANGED <<placeVars, camVars, serverVars>>
    /\ w_pc = "step_info"
    /\ \/ \E d \in Descriptions :
            /\ w_in' = [w_in EXCEPT !.description = d]
            /\ w_log' = Append(w_log, Event("step_info", "ok", "None", d))
            /\ retry_count' = 0
            /\ review_result' = "None"
            /\ w_pc' = "get_code"
            /\ w_return' = w_return
       \/ /\ Logged("step_info", "raised")
          /\ Return("raised")
          /\ UNCHANGED <<w_in, retry_count, review_result>>
    /\ UNCHANGED step_num

\* the head of the while loop's body
get_step_code ==
    /\ UNCHANGED <<placeVars, camVars, serverVars>>
    /\ w_pc = "get_code"
    /\ retry_count < max_retries
    /\ \E a \in Answers :
         /\ Logged("get_code", a)
         /\ CASE a = "raised" -> Return("raised")
              [] a = "failed" -> Return("False")
              [] a = "ok" ->
                   /\ w_pc' = IF NeedsFix(review_result) THEN "fix" ELSE "run"
                   /\ w_return' = w_return
    /\ UNCHANGED <<w_in, step_num, retry_count, review_result>>

\* the request to fix the step's code, with the failed review_result
fix_code ==
    /\ UNCHANGED <<placeVars, camVars, serverVars>>
    /\ w_pc = "fix"
    /\ \E a \in Answers :
         /\ Logged("fix", a)
         /\ CASE a = "raised" -> Return("raised")
              [] a = "failed" -> Return("False")
              [] a = "ok" -> w_pc' = "get_updated" /\ w_return' = w_return
    /\ UNCHANGED <<w_in, step_num, retry_count, review_result>>

get_updated_step_code ==
    /\ UNCHANGED <<placeVars, camVars, serverVars>>
    /\ w_pc = "get_updated"
    /\ \E a \in Answers :
         /\ Logged("get_updated", a)
         /\ CASE a = "raised" -> Return("raised")
              [] a = "failed" -> Return("False")
              [] a = "ok" -> w_pc' = "run" /\ w_return' = w_return
    /\ UNCHANGED <<w_in, step_num, retry_count, review_result>>

\* the execution of the step's code, and the decision whether it is reviewed
run_step_code ==
    /\ UNCHANGED <<placeVars, camVars, serverVars>>
    /\ w_pc = "run"
    /\ \E a \in Answers :
         /\ Logged("run", a)
         /\ IF a = "raised"
            THEN Return("raised") /\ step_num' = step_num
            ELSE IF ~ExecOk(a)
                 THEN Return("False") /\ step_num' = step_num
                 ELSE IF ~should_review_step(w_in.enable_review, w_in.description)
                      THEN NextStep
                      ELSE w_pc' = "review" /\ step_num' = step_num /\ w_return' = w_return
    /\ UNCHANGED <<w_in, retry_count, review_result>>

\* the review and the end of the while loop's body
review ==
    /\ UNCHANGED <<placeVars, camVars, serverVars>>
    /\ w_pc = "review"
    /\ \E response \in ReviewResponses :
         LET rr == ReviewResult(response)
         IN  /\ review_result' = rr
             /\ w_log' = Append(w_log, Event("review", rr, rr, w_in.description))
             /\ IF rr = "ok"
                THEN NextStep /\ retry_count' = retry_count
                ELSE /\ retry_count' = retry_count + 1
                     /\ step_num' = step_num
                     /\ IF retry_count + 1 < max_retries
                        THEN w_pc' = "get_code" /\ w_return' = w_return
                        ELSE Return("False")
    /\ UNCHANGED w_in

WorkflowNext ==
    \/ set_combination_in_coding_agent
    \/ generate_code
    \/ get_step_info
    \/ get_step_code
    \/ fix_code
    \/ get_updated_step_code
    \/ run_step_code
    \/ review

WorkflowSpec == WorkflowInit /\ [][WorkflowNext]_vars

---------------------------------------------------------------------------
(* C29, C30: the workflow's retries and its order *)

Steps == 1..MaxSteps

\* the positions in the log of the requests ev of step s
Requests(ev, s) == {i \in DOMAIN w_log : w_log[i].ev = ev /\ w_log[i].step = s}

Runs(s) == Requests("run", s)

FailedReviews(s) == {i \in Requests("review", s) : w_log[i].ok = "failed"}

\* the step has been executed with success and has passed its review or needed none
Completed(s) ==
    \E i \in Runs(s) :
      /\ w_log[i].ok = "ok"
      /\ \/ ~should_review_step(w_in.enable_review, w_log[i].description)
         \/ \E r \in Requests("review", s) : r > i /\ w_log[r].ok = "ok"

\* the workflow has left step s behind
Past(s) == step_num > s \/ (w_return = "True" /\ s <= w_in.total_steps)

\* the execution at position i of the log is not the first one of its step
ReExecution(i) == \E j \in Runs(w_log[i].step) : j < i

\* between the execution before i and i: a failed review of the step, then a
\* request to fix the step that carries the failed review
FixedSince(i) ==
    LET s == w_log[i].step
        before == CHOOSE j \in Runs(s) : j < i /\ \A k \in Runs(s) : k < i => k <= j
    IN  \E r \in FailedReviews(s), f \in Requests("fix", s) :
          /\ before < r /\ r < f /\ f < i
          /\ w_log[f].review_result = "failed"

ExemptOnce(s) ==
    \A i \in Runs(s) :
      ~should_review_step(w_in.enable_review, w_log[i].description) =>
          Cardinality(Runs(s)) = 1

\* C29: a step's code is executed at most 5 times; an execution that is not the
\* step's first comes after a failed review of the step and after a fix request
\* for the step that carried that failed review; with the 5th failed review of
\* a step the workflow has returned False; a step that needs no review is never
\* executed twice, and a step the workflow has left behind was executed
C29_RetriesBounded ==
    \A s \in Steps :
      /\ Cardinality(Runs(s)) <= 5
      /\ \A i \in Runs(s) : ReExecution(i) => FixedSince(i)
      /\ Cardinality(FailedReviews(s)) >= 5 => w_return = "False"
      /\ ExemptOnce(s)
      /\ Past(s) => Runs(s) # {}

\* the first step needed no review and was executed once; the second was
\* executed five times and failed its fifth review
C29_Witness ==
    /\ w_return = "False"
    /\ Cardinality(Runs(1)) = 1
    /\ ~should_review_step(w_in.enable_review, w_log[CHOOSE i \in Runs(1) : TRUE].description)
    /\ Cardinality(Runs(2)) = 5
    /\ Cardinality(FailedReviews(2)) = 5

\* the requests whose failure ends the workflow
Fetches == {"get_code", "fix", "get_updated", "run"}

InOrder ==
    \A i, j \in DOMAIN w_log :
      (i < j /\ w_log[i].ev = "run" /\ w_log[j].ev = "run") =>
          /\ w_log[i].step <= w_log[j].step
          /\ w_log[j].step <= w_in.total_steps

AfterPrevious ==
    \A s \in Steps : Runs(s) # {} =>
      /\ s >= 1
      /\ s > 1 =>
           \E i \in Runs(s - 1) :
             /\ \A j \in Runs(s) : i < j
             /\ w_log[i].ok = "ok"
             /\ \/ ~should_review_step(w_in.enable_review, w_log[i].description)
                \/ \E r \in Requests("review", s - 1) :
                     /\ r > i /\ w_log[r].ok = "ok"
                     /\ \A j \in Runs(s) : r < j

FailureAborts ==
    \A i \in DOMAIN w_log :
      (w_log[i].ev \in Fetches /\ w_log[i].ok # "ok") =>
          /\ i = Len(w_log)
          /\ w_pc = "done"
          /\ w_log[i].ok = "failed" => w_return = "False"
          /\ w_log[i].ok = "raised" => w_return = "raised"

SuccessIsComplete ==
    w_return = "True" => \A s \in 1..w_in.total_steps : Completed(s)

\* C30: the executions come in the order of the steps 1..total_steps; a step
\* after the first is executed only after an execution of the step before it
\* succeeded and that step passed a review or needed none; a code fetch, a fix
\* or an execution that fails is the last request of the workflow, which
\* returns False (an exception leaves the workflow at once as well); the
\* workflow returns True only when every step was completed
C30_OrderedAbortOnFailure ==
    /\ InOrder
    /\ AfterPrevious
    /\ FailureAborts
    /\ SuccessIsComplete

\* both steps were completed, the first after a failed review and a fix
C30_Witness ==
    /\ w_return = "True"
    /\ w_in.total_steps = 2
    /\ FailedReviews(1) # {}
    /\ Completed(1) /\ Completed(2)

====
